---- MODULE Spec2Model ----
(***************************************************************************)
(* A model of the NEAT kernel of brain-rs: the innovation registry         *)
(* (specie.rs), the CTR genome and its mutations (genome/recurrent.rs,     *)
(* genome/mod.rs), the crossover kernel (crossover.rs) and the per-species *)
(* reproduction (specie.rs).                                               *)
(*                                                                         *)
(* Node indices and pick indices are 0-based as in the source; TLA+        *)
(* sequences are 1-based, so node i is nodes[i + 1].  An Option is a       *)
(* sequence of length 0 (None) or 1 (Some).  Weights and fitness are       *)
(* integers standing for reals: weight 1 is the source's 1.0.              *)
(***************************************************************************)
EXTENDS Integers, Sequences, FiniteSets, TLC

VARIABLES
    population,   \* Vec<Genome>: the parents of the running generation
    offspring,    \* the Vec<Genome> population_reproduce is collecting
    pc,           \* "run", or "panic" once a mutation has panicked
    innogen,      \* the InnoGen of the running population_reproduce
    generation,   \* generations completed
    mutations,    \* mutation events that have happened (bounded by MaxMutations)
    last,         \* the operation that produced this state
    args,         \* arguments of the function under test (function specifications)
    ret           \* its return value

vars == <<population, offspring, pc, innogen, generation, mutations, last, args, ret>>

(***************************** bounds *************************************)
PopSize == 2          \* genomes per generation
MaxOffspring == 3     \* offspring produced per run, over all generations
MaxMutations == 3     \* mutation events (weight, connection, bisection) per run
MaxCalls == 4         \* InnoGen::path calls on one registry
MaxInno == 3          \* innovation ids 0 .. MaxInno - 1 of the crossed-over parents
UsizeBits == 8        \* width of usize in the model (the source's is the target's, 64)
MaxSpecies == 3       \* species handed to population_alloc
MaxMembers == 2       \* members of one species
MaxPopulation == 4    \* largest population target
MaxSize == 5          \* largest size asked of Specie::reproduce
MaxGenomes == 3       \* genomes handed to speciate
MaxReproduceMutations == 1 \* mutation events during one Specie::reproduce
MaxBuild == 4         \* steps that build and bisect one genome
MaxPool == 4          \* longest pool handed to uniq_2
MaxPathBuild == 3     \* mutations of the genome handed to gen_connection_path
MaxGenerations == 2 \* the configured generation cap of an evolution run
IoSizes == {<<0, 0>>, <<0, 1>>} \* (sensory, action) of the scenario
Weights == {1, 2}     \* the values a mutated weight may take

None == <<>>
Some(x) == <<x>>

Max(a, b) == IF a >= b THEN a ELSE b

Range(s) == {s[i] : i \in DOMAIN s}

Min(a, b) == IF a <= b THEN a ELSE b

Abs(x) == IF x < 0 THEN 0 - x ELSE x

\* l.partial_cmp(&r).unwrap() on values that are not NaN
partial_cmp(l, r) == IF l < r THEN "Less" ELSE IF l = r THEN "Equal" ELSE "Greater"

\* f64 values are rationals <<numerator, denominator>>, denominator > 0
RatAdd(a, b) == <<a[1] * b[2] + b[1] * a[2], a[2] * b[2]>>

RatLess(a, b) == a[1] * b[2] < b[1] * a[2]

RatMul(a, b) == <<a[1] * b[1], a[2] * b[2]>>

UsizeMax == 2 ^ UsizeBits - 1

\* f64::round(num / den) as usize: round half away from zero, then the
\* saturating cast (negative and NaN to 0, too large and +inf to usize::MAX);
\* den = 0 is the float division by zero
round_as_usize(num, den) ==
    IF den = 0 THEN (IF num > 0 THEN UsizeMax ELSE 0)
    ELSE LET p == IF den < 0 THEN 0 - num ELSE num
             q == IF den < 0 THEN 0 - den ELSE den
         IN  IF p <= 0 THEN 0 ELSE Min((2 * p + q) \div (2 * q), UsizeMax)

(*************************** specie.rs: InnoGen ***************************)
InnoGen_new(head) == [head |-> head, seen |-> {}]

\* a registry that stores the pair but forgets to advance head
InnoGen_path_head_kept(ig, v) ==
    IF \E e \in ig.seen : e[1] = v
    THEN [ig |-> ig, id |-> (CHOOSE e \in ig.seen : e[1] = v)[2]]
    ELSE [ig |-> [head |-> ig.head, seen |-> ig.seen \cup {<<v, ig.head>>}],
          id |-> ig.head]

\* seen is the FxHashMap as a set of <<(from, to), id>> entries
InnoGen_path(ig, v) ==
    IF \E e \in ig.seen : e[1] = v
    THEN [ig |-> ig, id |-> (CHOOSE e \in ig.seen : e[1] = v)[2]]
    ELSE [ig |-> [head |-> ig.head + 1, seen |-> ig.seen \cup {<<v, ig.head>>}],
          id |-> ig.head]

(********************** genome/recurrent.rs: CTRConnection ****************)
CTRConnection(inno, from, to, weight, enabled) ==
    [inno |-> inno, from |-> from, to |-> to, weight |-> weight, enabled |-> enabled]

enable(c) == [c EXCEPT !.enabled = TRUE]

\* recurrent.rs:48-50 assigns true
disable(c) == [c EXCEPT !.enabled = TRUE]

(************************ genome/recurrent.rs: CTRGenome ******************)
Genome_new(sensory, action) ==
    [sensory |-> sensory,
     action |-> action,
     nodes |-> [i \in 1..(sensory + action + 1) |->
                   IF i <= sensory THEN "Sensory"
                   ELSE IF i <= sensory + action THEN "Action"
                   ELSE "Bias"],
     connections |-> <<>>]

\* a loop that, as the doc comment of gen_connection_path asks, never draws
\* to = from
RECURSIVE gen_connection_path_loop_no_self(_, _)
gen_connection_path_loop_no_self(g, saturated) ==
    LET n == Len(g.nodes)
        froms == {f \in 0..(n - 1) : f \notin saturated}
    IN  IF froms = {} THEN {None}
        ELSE UNION {
            LET exclude == {g.connections[k].to :
                              k \in {j \in DOMAIN g.connections : g.connections[j].from = from}}
                tos == {t \in 0..(n - 1) : t \notin exclude /\ t # from}
            IN  IF tos # {} THEN {Some(<<from, t>>) : t \in tos}
                ELSE gen_connection_path_loop_no_self(g, saturated \cup {from})
            : from \in froms}

\* the outcomes of the loop of gen_connection_path, over the random choices
RECURSIVE gen_connection_path_loop(_, _)
gen_connection_path_loop(g, saturated) ==
    LET n == Len(g.nodes)
        froms == {f \in 0..(n - 1) : f \notin saturated}
    IN  IF froms = {} THEN {None}
        ELSE UNION {
            LET exclude == {g.connections[k].to :
                              k \in {j \in DOMAIN g.connections : g.connections[j].from = from}}
                tos == {t \in 0..(n - 1) : t \notin exclude}
            IN  IF tos # {} THEN {Some(<<from, t>>) : t \in tos}
                ELSE gen_connection_path_loop(g, saturated \cup {from})
            : from \in froms}

gen_connection_path(g) == gen_connection_path_loop(g, {})

\* a mutate_connection that numbers the connection by the registry head
\* without looking the path up
mutate_connection_head_id(g, ig, opt) ==
    IF opt # None
    THEN LET p == opt[1]
         IN  [g |-> [g EXCEPT !.connections =
                        Append(@, CTRConnection(ig.head, p[1], p[2], 1, TRUE))],
              ig |-> InnoGen_path(ig, p).ig,
              panic |-> FALSE]
    ELSE [g |-> g, ig |-> ig, panic |-> TRUE]

\* the body of mutate_connection once gen_connection_path has returned opt
mutate_connection(g, ig, opt) ==
    IF opt # None
    THEN LET p == opt[1]
             reg == InnoGen_path(ig, p)
         IN  [g |-> [g EXCEPT !.connections =
                        Append(@, CTRConnection(reg.id, p[1], p[2], 1, TRUE))],
              ig |-> reg.ig,
              panic |-> FALSE]
    ELSE [g |-> g, ig |-> ig, panic |-> TRUE]

\* a bisection that hands the picked weight to the lower connection
mutate_bisection_weights_swapped(g, ig, pick_idx) ==
    IF g.connections = <<>>
    THEN [g |-> g, ig |-> ig, panic |-> TRUE]
    ELSE LET new_node_idx == Len(g.nodes)
             pick == g.connections[pick_idx + 1]
             lo == InnoGen_path(ig, <<pick.from, new_node_idx>>)
             up == InnoGen_path(lo.ig, <<new_node_idx, pick.to>>)
             lower == CTRConnection(lo.id, pick.from, new_node_idx, pick.weight, TRUE)
             upper == CTRConnection(up.id, new_node_idx, pick.to, 1, TRUE)
         IN  [g |-> [g EXCEPT
                        !.nodes = Append(@, "Internal"),
                        !.connections =
                            Append(Append([@ EXCEPT ![pick_idx + 1].enabled = FALSE],
                                          lower), upper)],
              ig |-> up.ig,
              panic |-> FALSE]

\* mutate_bisection with the drawn pick_idx; an empty connection list panics
mutate_bisection(g, ig, pick_idx) ==
    IF g.connections = <<>>
    THEN [g |-> g, ig |-> ig, panic |-> TRUE]
    ELSE LET new_node_idx == Len(g.nodes)
             pick == g.connections[pick_idx + 1]
             lo == InnoGen_path(ig, <<pick.from, new_node_idx>>)
             up == InnoGen_path(lo.ig, <<new_node_idx, pick.to>>)
             lower == CTRConnection(lo.id, pick.from, new_node_idx, 1, TRUE)
             upper == CTRConnection(up.id, new_node_idx, pick.to, pick.weight, TRUE)
         IN  [g |-> [g EXCEPT
                        !.nodes = Append(@, "Internal"),
                        !.connections =
                            Append(Append([@ EXCEPT ![pick_idx + 1].enabled = FALSE],
                                          lower), upper)],
              ig |-> up.ig,
              panic |-> FALSE]

\* mutate_params: every weight is redrawn or perturbed; the outcomes
mutate_params(g) ==
    {[g EXCEPT !.connections = [k \in DOMAIN g.connections |->
                                   [g.connections[k] EXCEPT !.weight = w[k]]]] :
        w \in [DOMAIN g.connections -> Weights]}

\* w of network(): the writes w[from * cols + to] = weight over the enabled
\* connections k .. end in list order, on top of w
RECURSIVE network_w_loop(_, _, _)
network_w_loop(connections, k, w) ==
    IF k > Len(connections) THEN w
    ELSE LET c == connections[k]
         IN  network_w_loop(connections, k + 1,
                            IF c.enabled THEN [w EXCEPT ![<<c.from, c.to>>] = c.weight]
                            ELSE w)

\* Genome::network: w is indexed by <<row, column>> for index row * cols +
\* column of the cols x cols matrix; theta (the source's field θ) holds the
\* bias value of a Bias node (the model's Bias nodes carry no value: "Bias")
\* and 0 elsewhere
network(g) ==
    LET cols == Len(g.nodes)
    IN  [cols |-> cols,
         theta |-> [i \in 0..(cols - 1) |-> IF g.nodes[i + 1] = "Bias" THEN "Bias" ELSE 0],
         w |-> network_w_loop(g.connections, 1,
                              [ij \in (0..(cols - 1)) \X (0..(cols - 1)) |-> 0]),
         sensory |-> <<0, g.sensory>>,
         action |-> <<g.sensory, g.sensory + g.action>>]

(***************************** crossover.rs *******************************)
\* the random events one pick_gene call may consult
Rolls == [PickLEQ : BOOLEAN, KeepDisabled : BOOLEAN, NewDisabled : BOOLEAN]

pick_gene(base_conn, opt_conn, roll) ==
    LET conn == IF opt_conn # None
                THEN (IF roll.PickLEQ THEN opt_conn[1] ELSE base_conn)
                ELSE base_conn
    IN  IF ((~base_conn.enabled \/ (opt_conn # None /\ ~opt_conn[1].enabled))
                /\ roll.KeepDisabled)
           \/ roll.NewDisabled
        THEN disable(conn)
        ELSE conn

\* pick_gene over every outcome of the events
pick_gene_rng(base_conn, opt_conn) ==
    {pick_gene(base_conn, opt_conn, roll) : roll \in Rolls}

\* cross.extend(s[idx..].iter().map(|conn| pick_gene(conn, None, rng)))
RECURSIVE extend_pick_gene(_, _)
extend_pick_gene(s, idx) ==
    IF idx >= Len(s) THEN {<<>>}
    ELSE {<<c>> \o rest : c \in pick_gene_rng(s[idx + 1], None),
                          rest \in extend_pick_gene(s, idx + 1)}

\* a crossover_eq that copies l then r without merging the matching ids
crossover_eq_concat(l, r) ==
    {a \o b : a \in extend_pick_gene(l, 0), b \in extend_pick_gene(r, 0)}

\* the loop of crossover_eq from cursors (l_idx, r_idx): the possible tails
RECURSIVE crossover_eq_loop(_, _, _, _)
crossover_eq_loop(l, r, l_idx, r_idx) ==
    IF l_idx >= Len(l) /\ r_idx >= Len(r) THEN {<<>>}
    ELSE IF l_idx >= Len(l) THEN extend_pick_gene(r, r_idx)
    ELSE IF r_idx >= Len(r) THEN extend_pick_gene(l, l_idx)
    ELSE LET l_conn == l[l_idx + 1]
             r_conn == r[r_idx + 1]
         IN  IF l_conn.inno = r_conn.inno
             THEN {<<c>> \o rest : c \in pick_gene_rng(l_conn, Some(r_conn)),
                                   rest \in crossover_eq_loop(l, r, l_idx + 1, r_idx + 1)}
             ELSE IF l_conn.inno < r_conn.inno
             THEN {<<c>> \o rest : c \in pick_gene_rng(l_conn, None),
                                   rest \in crossover_eq_loop(l, r, l_idx + 1, r_idx)}
             ELSE {<<c>> \o rest : c \in pick_gene_rng(r_conn, None),
                                   rest \in crossover_eq_loop(l, r, l_idx, r_idx + 1)}

crossover_eq(l, r) == crossover_eq_loop(l, r, 0, 0)

\* while r.get(r_idx).is_some_and(|r_conn| r_conn.inno() < l_conn.inno()) { r_idx += 1 }
RECURSIVE skip_lesser(_, _, _)
skip_lesser(r, r_idx, inno) ==
    IF r_idx < Len(r) /\ r[r_idx + 1].inno < inno
    THEN skip_lesser(r, r_idx + 1, inno)
    ELSE r_idx

\* the for loop of crossover_ne from l[l_idx] on, with cursor r_idx
RECURSIVE crossover_ne_loop(_, _, _, _)
crossover_ne_loop(l, r, l_idx, r_idx) ==
    IF l_idx >= Len(l) THEN {<<>>}
    ELSE LET l_conn == l[l_idx + 1]
             r_at == skip_lesser(r, r_idx, l_conn.inno)
             opt == IF r_at < Len(r) /\ r[r_at + 1].inno = l_conn.inno
                    THEN Some(r[r_at + 1])
                    ELSE None
         IN  {<<c>> \o rest : c \in pick_gene_rng(l_conn, opt),
                              rest \in crossover_ne_loop(l, r, l_idx + 1, r_at)}

crossover_ne(l, r) == crossover_ne_loop(l, r, 0, 0)

\* usort.sort_by_key(|c| c.inno()): a stable sort
RECURSIVE sort_by_key(_)
sort_by_key(s) ==
    IF s = <<>> THEN <<>>
    ELSE LET init == sort_by_key(SubSeq(s, 1, Len(s) - 1))
             c == s[Len(s)]
             n == Cardinality({i \in DOMAIN init : init[i].inno <= c.inno})
         IN  SubSeq(init, 1, n) \o <<c>> \o SubSeq(init, n + 1, Len(init))

\* a crossover that does not swap the parents when l is the less fit
crossover_no_swap(l, r, l_fit) ==
    LET usort == IF l_fit = "Equal" THEN crossover_eq(l, r)
                 ELSE crossover_ne(l, r)
    IN  {sort_by_key(u) : u \in usort}

\* l_fit is "Less", "Equal" or "Greater"
crossover(l, r, l_fit) ==
    LET usort == IF l_fit = "Equal" THEN crossover_eq(l, r)
                 ELSE IF l_fit = "Less" THEN crossover_ne(r, l)
                 ELSE crossover_ne(l, r)
    IN  {sort_by_key(u) : u \in usort}

Ordering == {"Less", "Equal", "Greater"}

(********************* crossover.rs: compatibility ************************)
\* l_n, r_n: how many connections l_iter, r_iter have yielded; l_conn and
\* r_conn are the last ones yielded; iter.count() is what is left to yield.
\* This variant breaks with 1 where Equal finds l exhausted.
RECURSIVE disjoint_excess_loop_break_1(_, _, _, _, _)
disjoint_excess_loop_break_1(l, r, l_n, r_n, disjoint) ==
    LET l_conn == l[l_n]
        r_conn == r[r_n]
    IN  IF l_conn.inno = r_conn.inno
        THEN IF l_n >= Len(l) THEN <<disjoint, 0 + (Len(r) - r_n) + 1>>
             ELSE IF r_n >= Len(r) THEN <<disjoint, (Len(l) - (l_n + 1)) + 0 + 1>>
             ELSE disjoint_excess_loop_break_1(l, r, l_n + 1, r_n + 1, disjoint)
        ELSE IF l_conn.inno > r_conn.inno
        THEN IF r_n >= Len(r) THEN <<disjoint + 1, (Len(l) - l_n) + 0 + 1>>
             ELSE disjoint_excess_loop_break_1(l, r, l_n, r_n + 1, disjoint + 1)
        ELSE IF l_n >= Len(l) THEN <<disjoint + 1, 0 + (Len(r) - r_n) + 1>>
             ELSE disjoint_excess_loop_break_1(l, r, l_n + 1, r_n, disjoint + 1)

\* This variant does not count a connection of r passed in the Greater arm.
RECURSIVE disjoint_excess_loop_greater_uncounted(_, _, _, _, _)
disjoint_excess_loop_greater_uncounted(l, r, l_n, r_n, disjoint) ==
    LET l_conn == l[l_n]
        r_conn == r[r_n]
    IN  IF l_conn.inno = r_conn.inno
        THEN IF l_n >= Len(l) THEN <<disjoint, 0 + (Len(r) - r_n) + 0>>
             ELSE IF r_n >= Len(r) THEN <<disjoint, (Len(l) - (l_n + 1)) + 0 + 1>>
             ELSE disjoint_excess_loop_greater_uncounted(l, r, l_n + 1, r_n + 1, disjoint)
        ELSE IF l_conn.inno > r_conn.inno
        THEN IF r_n >= Len(r) THEN <<disjoint, (Len(l) - l_n) + 0 + 1>>
             ELSE disjoint_excess_loop_greater_uncounted(l, r, l_n, r_n + 1, disjoint)
        ELSE IF l_n >= Len(l) THEN <<disjoint + 1, 0 + (Len(r) - r_n) + 1>>
             ELSE disjoint_excess_loop_greater_uncounted(l, r, l_n + 1, r_n, disjoint + 1)

\* the loop of disjoint_excess_count and the tuple returned after it:
\* <<disjoint, l_iter.count() + r_iter.count() + excess_passed>>
RECURSIVE disjoint_excess_loop(_, _, _, _, _)
disjoint_excess_loop(l, r, l_n, r_n, disjoint) ==
    LET l_conn == l[l_n]
        r_conn == r[r_n]
    IN  IF l_conn.inno = r_conn.inno
        THEN IF l_n >= Len(l) THEN <<disjoint, 0 + (Len(r) - r_n) + 0>>
             ELSE IF r_n >= Len(r) THEN <<disjoint, (Len(l) - (l_n + 1)) + 0 + 1>>
             ELSE disjoint_excess_loop(l, r, l_n + 1, r_n + 1, disjoint)
        ELSE IF l_conn.inno > r_conn.inno
        THEN IF r_n >= Len(r) THEN <<disjoint + 1, (Len(l) - l_n) + 0 + 1>>
             ELSE disjoint_excess_loop(l, r, l_n, r_n + 1, disjoint + 1)
        ELSE IF l_n >= Len(l) THEN <<disjoint + 1, 0 + (Len(r) - r_n) + 1>>
             ELSE disjoint_excess_loop(l, r, l_n + 1, r_n, disjoint + 1)

\* a count that forgets l_conn, already taken from l_iter, when r is empty
disjoint_excess_count_l_conn_forgotten(l, r) ==
    IF Len(l) = 0 THEN <<0, Len(r)>>
    ELSE IF Len(r) = 0 THEN <<0, Len(l) - 1>>
    ELSE disjoint_excess_loop(l, r, 1, 1, 0)

disjoint_excess_count(l, r) ==
    IF Len(l) = 0 THEN <<0, Len(r)>>
    ELSE IF Len(r) = 0 THEN <<0, (Len(l) - 1) + 1>>
    ELSE disjoint_excess_loop(l, r, 1, 1, 0)

\* recurrent.rs:36-38
EXCESS_COEFFICIENT == <<1, 1>>
DISJOINT_COEFFICIENT == <<1, 1>>
PARAM_COEFFICIENT == <<4, 10>>

\* recurrent.rs:56-60
param_diff(self, other) == Abs(self.weight - other.weight)

\* the loop of avg_param_diff: <<diff, count>> at its break
RECURSIVE avg_param_diff_loop(_, _, _, _, _, _)
avg_param_diff_loop(l, r, l_n, r_n, diff, count) ==
    LET l_conn == l[l_n]
        r_conn == r[r_n]
    IN  IF l_conn.inno = r_conn.inno
        THEN IF l_n >= Len(l) \/ r_n >= Len(r)
             THEN <<diff + param_diff(l_conn, r_conn), count + 1>>
             ELSE avg_param_diff_loop(l, r, l_n + 1, r_n + 1,
                                      diff + param_diff(l_conn, r_conn), count + 1)
        ELSE IF l_conn.inno > r_conn.inno
        THEN IF r_n >= Len(r) THEN <<diff, count>>
             ELSE avg_param_diff_loop(l, r, l_n, r_n + 1, diff, count)
        ELSE IF l_n >= Len(l) THEN <<diff, count>>
             ELSE avg_param_diff_loop(l, r, l_n + 1, r_n, diff, count)

avg_param_diff(l, r) ==
    IF Len(l) = 0 \/ Len(r) = 0 THEN <<0, 1>>
    ELSE LET dc == avg_param_diff_loop(l, r, 1, 1, 0, 0)
         IN  IF dc[2] = 0 THEN <<0, 1>> ELSE dc

\* delta with the size term never normalised
delta_no_norm(l, r) ==
    LET l_size == Len(l)
        r_size == Len(r)
        longest == Max(l_size, r_size)
    IN  IF l_size = 0 \/ r_size = 0
        THEN RatMul(EXCESS_COEFFICIENT, <<longest, 1>>)
        ELSE LET de == disjoint_excess_count(l, r)
             IN  RatAdd(RatAdd(RatMul(DISJOINT_COEFFICIENT, <<de[1], 1>>),
                               RatMul(EXCESS_COEFFICIENT, <<de[2], 1>>)),
                        RatMul(PARAM_COEFFICIENT, avg_param_diff(l, r)))

delta(l, r) ==
    LET l_size == Len(l)
        r_size == Len(r)
        longest == Max(l_size, r_size)
        fac == IF longest < 20 THEN 1 ELSE longest
    IN  IF l_size = 0 \/ r_size = 0
        THEN RatMul(EXCESS_COEFFICIENT, <<longest, fac>>)
        ELSE LET de == disjoint_excess_count(l, r)
             IN  RatAdd(RatMul(RatAdd(RatMul(DISJOINT_COEFFICIENT, <<de[1], 1>>),
                                      RatMul(EXCESS_COEFFICIENT, <<de[2], 1>>)),
                               <<1, fac>>),
                        RatMul(PARAM_COEFFICIENT, avg_param_diff(l, r)))

(****************** genome/recurrent.rs: reproduce_with *******************)
\* reproduce_nodes without the push of the bias node
reproduce_nodes_no_bias(sensory, action, connections) ==
    LET nodes_size == IF connections = <<>> THEN 0
                      ELSE LET m == {Max(connections[k].from, connections[k].to) :
                                        k \in DOMAIN connections}
                           IN  CHOOSE x \in m : \A y \in m : y <= x
        internal == IF nodes_size > sensory + action
                    THEN nodes_size - (sensory + action) ELSE 0
    IN  [i \in 1..(sensory + action + internal) |->
            IF i <= sensory THEN "Sensory"
            ELSE IF i <= sensory + action THEN "Action"
            ELSE "Internal"]

\* reproduce_nodes with the Internal loop started after the bias node
reproduce_nodes_after_bias(sensory, action, connections) ==
    LET nodes_size == IF connections = <<>> THEN 0
                      ELSE LET m == {Max(connections[k].from, connections[k].to) :
                                        k \in DOMAIN connections}
                           IN  CHOOSE x \in m : \A y \in m : y <= x
        internal == IF nodes_size > sensory + action + 1
                    THEN nodes_size - (sensory + action + 1) ELSE 0
    IN  [i \in 1..(sensory + action + 1 + internal) |->
            IF i <= sensory THEN "Sensory"
            ELSE IF i <= sensory + action THEN "Action"
            ELSE IF i = sensory + action + 1 THEN "Bias"
            ELSE "Internal"]

\* the node list reproduce_with builds for crossed-over connections
reproduce_nodes(sensory, action, connections) ==
    LET nodes_size == IF connections = <<>> THEN 0
                      ELSE LET m == {Max(connections[k].from, connections[k].to) :
                                        k \in DOMAIN connections}
                           IN  CHOOSE x \in m : \A y \in m : y <= x
        internal == IF nodes_size > sensory + action
                    THEN nodes_size - (sensory + action) ELSE 0
    IN  [i \in 1..(sensory + action + 1 + internal) |->
            IF i <= sensory THEN "Sensory"
            ELSE IF i <= sensory + action THEN "Action"
            ELSE IF i = sensory + action + 1 THEN "Bias"
            ELSE "Internal"]

reproduce_with(self, other, self_fit) ==
    {[sensory |-> self.sensory,
      action |-> self.action,
      nodes |-> reproduce_nodes(self.sensory, self.action, connections),
      connections |-> connections] :
        connections \in crossover(self.connections, other.connections, self_fit)}

(********************** specie.rs: population_init ************************)
\* for g in v.iter_mut() { g.mutate_connection(rng, &mut inext).unwrap() }
RECURSIVE population_init_loop(_, _, _)
population_init_loop(v, i, inext) ==
    IF i > Len(v) THEN {[v |-> v, head |-> inext.head]}
    ELSE UNION {
        LET m == mutate_connection(v[i], inext, opt)
        IN  IF m.panic THEN {}
            ELSE population_init_loop([v EXCEPT ![i] = m.g], i + 1, m.ig)
        : opt \in gen_connection_path(v[i])}

population_init(sensory, action, size) ==
    population_init_loop([i \in 1..size |-> Genome_new(sensory, action)], 1, InnoGen_new(0))

(************************ genome/mod.rs: Genome::mutate ********************)
\* The three rolls of mutate in order; a roll can happen while fewer than
\* budget mutation events have happened.  A state is [g, ig, used, panic].
mutate_weight_roll(st, budget) ==
    {st} \cup
    (IF st.used < budget
     THEN {[st EXCEPT !.g = g2, !.used = @ + 1] : g2 \in mutate_params(st.g)}
     ELSE {})

mutate_connection_roll(st, budget) ==
    {st} \cup
    (IF st.used < budget
     THEN {LET m == mutate_connection(st.g, st.ig, opt)
           IN  [g |-> m.g, ig |-> m.ig, used |-> st.used + 1, panic |-> m.panic] :
              opt \in gen_connection_path(st.g)}
     ELSE {})

\* the bisection roll without the !self.connections().is_empty() condition
mutate_bisection_roll_unguarded(st, budget) ==
    {st} \cup
    (IF st.used < budget
     THEN {LET m == mutate_bisection(st.g, st.ig, pick_idx)
           IN  [g |-> m.g, ig |-> m.ig, used |-> st.used + 1, panic |-> m.panic] :
              pick_idx \in 0..Max(0, Len(st.g.connections) - 1)}
     ELSE {})

mutate_bisection_roll(st, budget) ==
    {st} \cup
    (IF st.used < budget /\ st.g.connections # <<>>
     THEN {LET m == mutate_bisection(st.g, st.ig, pick_idx)
           IN  [g |-> m.g, ig |-> m.ig, used |-> st.used + 1, panic |-> m.panic] :
              pick_idx \in 0..(Len(st.g.connections) - 1)}
     ELSE {})

mutate(g, ig, budget) ==
    LET s0 == [g |-> g, ig |-> ig, used |-> 0, panic |-> FALSE]
        s1 == mutate_weight_roll(s0, budget)
        s2 == UNION {mutate_connection_roll(st, budget) : st \in s1}
    IN  UNION {IF st.panic THEN {st} ELSE mutate_bisection_roll(st, budget) : st \in s2}

(*************************** specie.rs: Specie *****************************)
\* members are <<genome, fitness>> pairs
Specie(repr, members) == [repr |-> repr, members |-> members]

\* members.iter().fold(0., |acc, (_, fit)| acc + *fit / l), from member k on
RECURSIVE fit_adjusted_fold(_, _, _)
fit_adjusted_fold(members, k, acc) ==
    IF k > Len(members) THEN acc
    ELSE fit_adjusted_fold(members, k + 1, RatAdd(acc, <<members[k][2], Len(members)>>))

fit_adjusted(specie) == fit_adjusted_fold(specie.members, 1, <<0, 1>>)

\* fits.sort_by(|(_, l), (_, r)| r.partial_cmp(l).unwrap()): stable, descending
RECURSIVE sort_fits(_)
sort_fits(fits) ==
    IF fits = <<>> THEN <<>>
    ELSE LET init == sort_fits(SubSeq(fits, 1, Len(fits) - 1))
             c == fits[Len(fits)]
             n == Cardinality({i \in DOMAIN init : ~RatLess(init[i][2], c[2])})
         IN  SubSeq(init, 1, n) \o <<c>> \o SubSeq(init, n + 1, Len(init))

RECURSIVE fit_total_fold(_, _, _)
fit_total_fold(fits, k, acc) ==
    IF k > Len(fits) THEN acc
    ELSE fit_total_fold(fits, k + 1, RatAdd(acc, fits[k][2]))

\* the for loop of population_alloc from fits[k] on.  size_acc + s_pop is a
\* usize addition: past usize::MAX a build with overflow checks panics and a
\* build without them wraps.  sizes is the HashMap as a function.
RECURSIVE population_alloc_loop(_, _, _, _, _, _, _)
population_alloc_loop(fits, k, population_target, population_scaled, fit_total, sizes, size_acc) ==
    IF k > Len(fits) THEN {[sizes |-> sizes, panic |-> FALSE]}
    ELSE LET specie_repr == fits[k][1]
             fit == fits[k][2]
             s_pop == round_as_usize(population_scaled[1] * fit[1] * fit_total[2],
                                     population_scaled[2] * fit[2] * fit_total[1])
             sum == size_acc + s_pop
             wrapped == sum % (UsizeMax + 1)
         IN  (IF sum > UsizeMax THEN {[sizes |-> sizes, panic |-> TRUE]} ELSE {})
             \cup
             (IF wrapped < population_target
              THEN population_alloc_loop(fits, k + 1, population_target, population_scaled, fit_total,
                                         (specie_repr :> s_pop) @@ sizes, wrapped)
              ELSE {[sizes |-> (specie_repr :> (population_target - size_acc)) @@ sizes,
                     panic |-> FALSE]})

\* top_p is a rational; the result is the set of outcomes over the builds
population_alloc(species, population_target, top_p) ==
    LET fits == sort_fits([k \in DOMAIN species |->
                              <<species[k].repr, fit_adjusted(species[k])>>])
        population_scaled == <<population_target * top_p[2], top_p[1]>>
        fit_total == fit_total_fold(fits, 1, <<0, 1>>)
    IN  population_alloc_loop(fits, 1, population_target, population_scaled, fit_total, <<>>, 0)

\* Specie::last
Specie_last(specie) ==
    IF specie.members = <<>> THEN None ELSE Some(specie.members[Len(specie.members)])

\* a uniq_2 that forgets to shift the second draw
uniq_2_at_unshifted(pool, l, r) ==
    Some(<<pool[l + 1], pool[r + 1]>>)

\* uniq_2 for the draws l and r of 0..len
uniq_2_at(pool, l, r) ==
    IF l = r
    THEN IF r + 1 = Len(pool) THEN Some(<<pool[l + 1], pool[0 + 1]>>)
         ELSE Some(<<pool[l + 1], pool[(r + 1) + 1]>>)
    ELSE Some(<<pool[l + 1], pool[r + 1]>>)

uniq_2(pool) ==
    IF Len(pool) < 2 THEN {None}
    ELSE {uniq_2_at(pool, l, r) : l \in 0 .. Len(pool) - 1, r \in 0 .. Len(pool) - 1}

\* The reproduce functions return the set of their outcomes
\* [pop, ig, used, err]: the offspring, the registry after the call, the
\* mutation events spent, and whether the call ended in an error or a panic.

\* One turn of the while loop of reproduce_crossover from outcome st.
reproduce_crossover_turn(specie, budget, st) ==
    UNION {UNION {
        {IF mu.panic
         THEN [pop |-> st.pop, ig |-> mu.ig, used |-> st.used + mu.used, err |-> TRUE]
         ELSE [pop |-> Append(st.pop, mu.g), ig |-> mu.ig,
               used |-> st.used + mu.used, err |-> FALSE]
         : mu \in mutate(child, st.ig, budget - st.used)}
        : child \in reproduce_with(lr[1][1][1], lr[1][2][1],
                                   partial_cmp(lr[1][1][2], lr[1][2][2]))}
      : lr \in uniq_2(specie.members)}

\* while pop.len() < size, over the set sts of outcomes so far
RECURSIVE reproduce_crossover_loop(_, _, _, _)
reproduce_crossover_loop(specie, size, budget, sts) ==
    IF \A st \in sts : st.err \/ Len(st.pop) >= size THEN sts
    ELSE reproduce_crossover_loop(specie, size, budget,
             UNION {IF st.err \/ Len(st.pop) >= size THEN {st}
                    ELSE reproduce_crossover_turn(specie, budget, st) : st \in sts})

reproduce_crossover(specie, size, ig, budget) ==
    IF size = 0 THEN {[pop |-> <<>>, ig |-> ig, used |-> 0, err |-> FALSE]}
    ELSE IF Len(specie.members) < 2
    THEN {[pop |-> <<>>, ig |-> ig, used |-> 0, err |-> TRUE]}
    ELSE reproduce_crossover_loop(specie, size, budget,
                                  {[pop |-> <<>>, ig |-> ig, used |-> 0, err |-> FALSE]})

\* one turn of the while loop of reproduce_copy from outcome st
reproduce_copy_turn(specie, budget, st) ==
    UNION {
        {IF mu.panic
         THEN [pop |-> st.pop, ig |-> mu.ig, used |-> st.used + mu.used, err |-> TRUE]
         ELSE [pop |-> Append(st.pop, mu.g), ig |-> mu.ig,
               used |-> st.used + mu.used, err |-> FALSE]
         : mu \in mutate(specie.members[k][1], st.ig, budget - st.used)}
      : k \in DOMAIN specie.members}

RECURSIVE reproduce_copy_loop(_, _, _, _)
reproduce_copy_loop(specie, size, budget, sts) ==
    IF \A st \in sts : st.err \/ Len(st.pop) >= size THEN sts
    ELSE reproduce_copy_loop(specie, size, budget,
             UNION {IF st.err \/ Len(st.pop) >= size THEN {st}
                    ELSE reproduce_copy_turn(specie, budget, st) : st \in sts})

reproduce_copy(specie, size, ig, budget) ==
    IF size = 0 THEN {[pop |-> <<>>, ig |-> ig, used |-> 0, err |-> FALSE]}
    ELSE IF specie.members = <<>>
    THEN {[pop |-> <<>>, ig |-> ig, used |-> 0, err |-> TRUE]}
    ELSE reproduce_copy_loop(specie, size, budget,
                             {[pop |-> <<>>, ig |-> ig, used |-> 0, err |-> FALSE]})

\* a reproduce whose copy share ignores that the species has one member
reproduce_copy_quarter(specie, size, ig, budget) ==
    IF size = 0 THEN {[pop |-> <<>>, ig |-> ig, used |-> 0, err |-> FALSE]}
    ELSE IF specie.members = <<>>
    THEN {[pop |-> <<>>, ig |-> ig, used |-> 0, err |-> TRUE]}
    ELSE LET pop == <<Specie_last(specie)[1][1]>>
             size_1 == size - 1
             size_copy == IF size_1 \div 4 = 0 THEN size_1 ELSE size_1 \div 4
             size_crossover == size_1 - size_copy
         IN  IF size = 1 THEN {[pop |-> pop, ig |-> ig, used |-> 0, err |-> FALSE]}
             ELSE UNION {
                    IF c.err THEN {[c EXCEPT !.pop = pop \o c.pop]}
                    ELSE {[pop |-> pop \o c.pop \o x.pop, ig |-> x.ig,
                           used |-> c.used + x.used, err |-> x.err]
                          : x \in reproduce_crossover(specie, size_crossover, c.ig,
                                                      budget - c.used)}
                    : c \in reproduce_copy(specie, size_copy, ig, budget)}

\* Specie::reproduce
reproduce(specie, size, ig, budget) ==
    IF size = 0 THEN {[pop |-> <<>>, ig |-> ig, used |-> 0, err |-> FALSE]}
    ELSE IF specie.members = <<>>
    THEN {[pop |-> <<>>, ig |-> ig, used |-> 0, err |-> TRUE]}
    ELSE LET pop == <<Specie_last(specie)[1][1]>>
             size_1 == size - 1
             size_copy == IF size_1 \div 4 = 0 \/ Len(specie.members) = 1
                          THEN size_1 ELSE size_1 \div 4
             size_crossover == size_1 - size_copy
         IN  IF size = 1 THEN {[pop |-> pop, ig |-> ig, used |-> 0, err |-> FALSE]}
             ELSE UNION {
                    IF c.err THEN {[c EXCEPT !.pop = pop \o c.pop]}
                    ELSE {[pop |-> pop \o c.pop \o x.pop, ig |-> x.ig,
                           used |-> c.used + x.used, err |-> x.err]
                          : x \in reproduce_crossover(specie, size_crossover, c.ig,
                                                      budget - c.used)}
                    : c \in reproduce_copy(specie, size_copy, ig, budget)}

\* a shrink that truncates p * len toward zero instead of rounding it
shrink_top_p_floor(specie, p) ==
    IF p[1] <= 0 \/ p[2] < p[1]
    THEN [specie |-> specie, panic |-> TRUE]
    ELSE LET len == (p[1] * Len(specie.members)) \div p[2]
         IN  [specie |-> [specie EXCEPT !.members =
                             SubSeq(@, 1, Min(len, Len(@)))],
              panic |-> FALSE]

\* Specie::shrink_top_p with p = p[1] / p[2], p[2] > 0;
\* Vec::truncate(len) keeps the first len elements and does nothing when len
\* is not below the current length
shrink_top_p(specie, p) ==
    IF p[1] <= 0 \/ p[2] < p[1]
    THEN [specie |-> specie, panic |-> TRUE]
    ELSE LET len == round_as_usize(p[1] * Len(specie.members), p[2])
         IN  [specie |-> [specie EXCEPT !.members =
                             SubSeq(@, 1, Min(len, Len(@)))],
              panic |-> FALSE]

\* specie.rs:316
SPECIE_THRESHOLD == <<4, 1>>

\* a find that returns the last matching species
find_specie_last_match(sp, connections) ==
    LET hits == {i \in DOMAIN sp : RatLess(delta(sp[i].repr, connections), SPECIE_THRESHOLD)}
    IN  IF hits = {} THEN None ELSE Some(CHOOSE i \in hits : \A j \in hits : j <= i)

\* sp.iter_mut().find(|Specie { repr, .. }| repr.delta(&pair.0.connections) < SPECIE_THRESHOLD)
find_specie(sp, connections) ==
    LET hits == {i \in DOMAIN sp : RatLess(delta(sp[i].repr, connections), SPECIE_THRESHOLD)}
    IN  IF hits = {} THEN None ELSE Some(CHOOSE i \in hits : \A j \in hits : i <= j)

RECURSIVE speciate_loop(_, _, _)
speciate_loop(genomes, k, sp) ==
    IF k > Len(genomes) THEN sp
    ELSE LET pair == genomes[k]
             found == find_specie(sp, pair[1].connections)
         IN  speciate_loop(genomes, k + 1,
                 IF found # None
                 THEN [sp EXCEPT ![found[1]].members = Append(@, pair)]
                 ELSE Append(sp, Specie(pair[1].connections, <<pair>>)))

\* members.sort_by(|l, r| r.1.partial_cmp(&l.1).unwrap()): stable, descending
RECURSIVE sort_members(_)
sort_members(members) ==
    IF members = <<>> THEN <<>>
    ELSE LET init == sort_members(SubSeq(members, 1, Len(members) - 1))
             c == members[Len(members)]
             n == Cardinality({i \in DOMAIN init : init[i][2] >= c[2]})
         IN  SubSeq(init, 1, n) \o <<c>> \o SubSeq(init, n + 1, Len(init))

speciate(genomes) ==
    LET sp == speciate_loop(genomes, 1, <<>>)
    IN  [i \in DOMAIN sp |-> [sp[i] EXCEPT !.members = sort_members(@)]]

(***************************************************************************)
(* Spec: the evolution of a population.  One population_reproduce runs per *)
(* generation with one InnoGen; it collects offspring that are an elite    *)
(* clone, a mutated clone (reproduce_copy) or a mutated crossover child    *)
(* (reproduce_crossover).  Which members are drawn, and how their fitness  *)
(* compares, is decided by the scenario and the rng: any choice is taken.  *)
(***************************************************************************)
\* offspring produced so far
Produced == generation * PopSize + Len(offspring)

Init ==
    \E io \in IoSizes :
        \E pi \in population_init(io[1], io[2], PopSize) :
            /\ population = pi.v
            /\ innogen = InnoGen_new(pi.head)
            /\ offspring = <<>>
            /\ pc = "run"
            /\ generation = 0
            /\ mutations = 0
            /\ last = "population_init"
            /\ args = <<>>
            /\ ret = <<>>

\* child.maybe_mutate(rng, innogen)?; pop.push(child)
MutateAndPush(g) ==
    \E m \in mutate(g, innogen, MaxMutations - mutations) :
        /\ offspring' = IF m.panic THEN offspring ELSE Append(offspring, m.g)
        /\ innogen' = m.ig
        /\ mutations' = mutations + m.used
        /\ pc' = IF m.panic THEN "panic" ELSE "run"

\* Specie::reproduce: pop.push(self.last().unwrap().0.clone())
ReproduceElite(i) ==
    /\ pc = "run"
    /\ Len(offspring) < PopSize
    /\ Produced < MaxOffspring
    /\ offspring' = Append(offspring, population[i])
    /\ last' = "elite"
    /\ UNCHANGED <<population, pc, innogen, generation, mutations, args, ret>>

\* Specie::reproduce_copy: one round of the while loop
ReproduceCopy(i) ==
    /\ pc = "run"
    /\ Len(offspring) < PopSize
    /\ Produced < MaxOffspring
    /\ MutateAndPush(population[i])
    /\ last' = "reproduce_copy"
    /\ UNCHANGED <<population, generation, args, ret>>

\* Specie::reproduce_crossover: one round of the while loop; uniq_2 draws two
\* members at different positions, fit is l.1.partial_cmp(&r.1)
ReproduceCrossover(i, j, fit) ==
    /\ pc = "run"
    /\ Len(offspring) < PopSize
    /\ Produced < MaxOffspring
    /\ i # j
    /\ \E c \in reproduce_with(population[i], population[j], fit) : MutateAndPush(c)
    /\ last' = "reproduce_crossover"
    /\ UNCHANGED <<population, generation, args, ret>>

\* a next generation whose registry starts again at 0
NextGeneration_head_0 ==
    /\ pc = "run"
    /\ Len(offspring) = PopSize
    /\ Produced < MaxOffspring
    /\ population' = offspring
    /\ offspring' = <<>>
    /\ innogen' = InnoGen_new(0)
    /\ generation' = generation + 1
    /\ last' = "population_reproduce"
    /\ UNCHANGED <<pc, mutations, args, ret>>

\* population_reproduce returns (offspring, innogen.head); the next call starts
\* InnoGen::new(inno_head) over the returned population
NextGeneration ==
    /\ pc = "run"
    /\ Len(offspring) = PopSize
    /\ Produced < MaxOffspring
    /\ population' = offspring
    /\ offspring' = <<>>
    /\ innogen' = InnoGen_new(innogen.head)
    /\ generation' = generation + 1
    /\ last' = "population_reproduce"
    /\ UNCHANGED <<pc, mutations, args, ret>>

Next ==
    \/ \E i \in DOMAIN population : ReproduceElite(i)
    \/ \E i \in DOMAIN population : ReproduceCopy(i)
    \/ \E i, j \in DOMAIN population : \E fit \in Ordering : ReproduceCrossover(i, j, fit)
    \/ NextGeneration

Spec == Init /\ [][Next]_vars

(************************** claims on Spec ********************************)
\* every genome the generation holds: the parents and the offspring collected
Genomes == Range(population) \cup Range(offspring)

\* C2: every genome's connection list is strictly ascending by innovation
\* id: no connection has an id smaller than or equal to one stored before it.
C2_ConnectionsAscending ==
    \A g \in Genomes :
        \A i, j \in DOMAIN g.connections :
            i < j => g.connections[i].inno < g.connections[j].inno

\* C3: while the registry head is above every id of the population, no
\* genome holds two connections with the same innovation id.
C3_NoDuplicateInnovation ==
    (\A g \in Genomes : \A k \in DOMAIN g.connections : g.connections[k].inno < innogen.head)
    => \A g \in Genomes :
           \A i, j \in DOMAIN g.connections :
               i # j => g.connections[i].inno # g.connections[j].inno

\* C4: in every genome, every connection's from and to are node indices of
\* that genome (strictly less than its node count).
C4_ValidNodeIndices ==
    \A g \in Genomes :
        \A k \in DOMAIN g.connections :
            /\ g.connections[k].from < Len(g.nodes)
            /\ g.connections[k].to < Len(g.nodes)

\* a crossover child that holds an Internal node, with a connection on its
\* last node, has been pushed
C4_Witness ==
    /\ last = "reproduce_crossover"
    /\ offspring # <<>>
    /\ LET g == offspring[Len(offspring)]
       IN  /\ Len(g.nodes) > g.sensory + g.action + 1
           /\ \E k \in DOMAIN g.connections :
                 Max(g.connections[k].from, g.connections[k].to) = Len(g.nodes) - 1

(************************************************************************)
(* The registry alone: one InnoGen::new(h), then any sequence of path   *)
(* calls.  args = <<h>>, ret = the log of <<pair, returned id>>.        *)
(************************************************************************)
InnoHeads == {0, 3}
InnoPaths == {<<0, 0>>, <<0, 1>>, <<1, 0>>}

InitInno ==
    \E h \in InnoHeads :
        /\ innogen = InnoGen_new(h)
        /\ args = <<h>>
        /\ ret = <<>>
        /\ pc = "inno"
        /\ last = "InnoGen_new"
        /\ population = <<>>
        /\ offspring = <<>>
        /\ generation = 0
        /\ mutations = 0

CallPath(p) ==
    /\ pc = "inno"
    /\ Len(ret) < MaxCalls
    /\ LET r == InnoGen_path(innogen, p)
       IN  /\ innogen' = r.ig
           /\ ret' = Append(ret, <<p, r.id>>)
    /\ last' = "InnoGen_path"
    /\ UNCHANGED <<population, offspring, pc, generation, mutations, args>>

NextInno == \E p \in InnoPaths : CallPath(p)

SpecInno == InitInno /\ [][NextInno]_vars

\* C1: on one registry created with new(h), equal pairs get the same id,
\* different pairs get different ids, every id is at least h, and head is
\* h plus the number of distinct pairs asked so far.
C1_InnoGenIdempotent ==
    pc = "inno" =>
        /\ \A i, j \in DOMAIN ret : (ret[i][1] = ret[j][1]) <=> (ret[i][2] = ret[j][2])
        /\ \A i \in DOMAIN ret : ret[i][2] >= args[1]
        /\ innogen.head = args[1] + Cardinality({ret[i][1] : i \in DOMAIN ret})

\* a pair asked twice, with another pair asked in between, on a registry
\* whose head did not start at 0
C1_Witness ==
    /\ pc = "inno"
    /\ args[1] > 0
    /\ \E i, j, k \in DOMAIN ret :
          i < k /\ k < j /\ ret[i][1] = ret[j][1] /\ ret[k][1] # ret[i][1]

(************************************************************************)
(* The crossover kernel alone: parents L and R strictly sorted by id,   *)
(* with any enabled flags.  L's connections carry weight 1 and R's      *)
(* weight 2, so the parent a child connection was cloned from shows.    *)
(* args = <<L, R>>, ret = <<function or l_fit, returned list>>.         *)
(************************************************************************)
RECURSIVE SortedSeq(_)
SortedSeq(S) ==
    IF S = {} THEN <<>>
    ELSE LET hi == CHOOSE x \in S : \A y \in S : y <= x
         IN  Append(SortedSeq(S \ {hi}), hi)

SortedLists(weight) ==
    {[k \in DOMAIN SortedSeq(S) |->
          CTRConnection(SortedSeq(S)[k], 0, SortedSeq(S)[k], weight, en[SortedSeq(S)[k]])] :
        S \in SUBSET (0 .. MaxInno - 1), en \in [0 .. MaxInno - 1 -> BOOLEAN]}

InitCross ==
    /\ \E l \in SortedLists(1), r \in SortedLists(2) : args = <<l, r>>
    /\ ret = <<>>
    /\ pc = "cross"
    /\ last = "parents"
    /\ population = <<>>
    /\ offspring = <<>>
    /\ innogen = InnoGen_new(0)
    /\ generation = 0
    /\ mutations = 0

CallCrossoverEq ==
    /\ pc = "cross"
    /\ \E u \in crossover_eq(args[1], args[2]) : ret' = <<"crossover_eq", u>>
    /\ pc' = "crossed"
    /\ last' = "crossover_eq"
    /\ UNCHANGED <<population, offspring, innogen, generation, mutations, args>>

CallCrossover(l_fit) ==
    /\ pc = "cross"
    /\ \E u \in crossover(args[1], args[2], l_fit) : ret' = <<l_fit, u>>
    /\ pc' = "crossed"
    /\ last' = "crossover"
    /\ UNCHANGED <<population, offspring, innogen, generation, mutations, args>>

NextCross ==
    \/ CallCrossoverEq
    \/ \E l_fit \in Ordering : CallCrossover(l_fit)

SpecCross == InitCross /\ [][NextCross]_vars

Innos(s) == {s[k].inno : k \in DOMAIN s}

\* c is a clone of p, but for the enabled flag
EqModuloEnabled(c, p) == [c EXCEPT !.enabled = p.enabled] = p

AscendingByInno(s) == \A i, j \in DOMAIN s : i < j => s[i].inno < s[j].inno

\* C5: for strictly sorted parents and every outcome of the random events,
\* the equal-fitness crossover (crossover_eq, and crossover with Equal)
\* returns each id of the union of the parents' ids exactly once, ascending,
\* every connection a clone modulo enabled of a parent's connection of that id.
C5_CrossoverEqTopology ==
    (pc = "crossed" /\ ret[1] \in {"crossover_eq", "Equal"}) =>
        LET l == args[1]
            r == args[2]
            c == ret[2]
        IN  /\ Innos(c) = Innos(l) \cup Innos(r)
            /\ Len(c) = Cardinality(Innos(l) \cup Innos(r))
            /\ AscendingByInno(c)
            /\ \A k \in DOMAIN c :
                  \E p \in Range(l) \cup Range(r) :
                      p.inno = c[k].inno /\ EqModuloEnabled(c[k], p)

\* crossover_eq has met an id of L only, an id of R only, and a matching id
\* for which it took R's connection
C5_Witness ==
    /\ pc = "crossed"
    /\ ret[1] = "crossover_eq"
    /\ Innos(args[1]) \ Innos(args[2]) # {}
    /\ Innos(args[2]) \ Innos(args[1]) # {}
    /\ \E k \in DOMAIN ret[2] :
          /\ ret[2][k].inno \in Innos(args[1]) \cap Innos(args[2])
          /\ ret[2][k].weight = 2

\* the child of crossover_ne(fit, unfit)
NeTopology(fit, unfit, c) ==
    /\ Len(c) = Len(fit)
    /\ \A k \in DOMAIN c : c[k].inno = fit[k].inno
    /\ Innos(c) \cap (Innos(unfit) \ Innos(fit)) = {}
    /\ \A k \in DOMAIN c :
          \/ EqModuloEnabled(c[k], fit[k])
          \/ \E q \in Range(unfit) : q.inno = c[k].inno /\ EqModuloEnabled(c[k], q)

\* C6: for strictly sorted parents and every outcome of the random events,
\* crossover with Greater returns exactly L's ids in L's order and with Less
\* exactly R's ids; an id of the less fit parent only never appears, and each
\* connection is a clone modulo enabled of the fitter parent's connection or,
\* for an id of both, of the other parent's.
C6_CrossoverNeTopology ==
    /\ (pc = "crossed" /\ ret[1] = "Greater") => NeTopology(args[1], args[2], ret[2])
    /\ (pc = "crossed" /\ ret[1] = "Less") => NeTopology(args[2], args[1], ret[2])

\* crossover with Less: L (less fit) and R each own an id the other lacks,
\* and for a matching id the child took L's connection
C6_Witness ==
    /\ pc = "crossed"
    /\ ret[1] = "Less"
    /\ Innos(args[1]) \ Innos(args[2]) # {}
    /\ Innos(args[2]) \ Innos(args[1]) # {}
    /\ \E k \in DOMAIN ret[2] : ret[2][k].weight = 1

(************************************************************************)
(* The compatibility measures alone, on the parents of InitCross.       *)
(* args = <<L, R>>, ret = <<function, f(L, R), f(R, L)>>.               *)
(************************************************************************)
CallDisjointExcessCount ==
    /\ pc = "cross"
    /\ ret' = <<"disjoint_excess_count",
                disjoint_excess_count(args[1], args[2]),
                disjoint_excess_count(args[2], args[1])>>
    /\ pc' = "measured"
    /\ last' = "disjoint_excess_count"
    /\ UNCHANGED <<population, offspring, innogen, generation, mutations, args>>

CallAvgParamDiff ==
    /\ pc = "cross"
    /\ ret' = <<"avg_param_diff",
                avg_param_diff(args[1], args[2]),
                avg_param_diff(args[2], args[1])>>
    /\ pc' = "measured"
    /\ last' = "avg_param_diff"
    /\ UNCHANGED <<population, offspring, innogen, generation, mutations, args>>

NextDelta ==
    \/ CallDisjointExcessCount
    \/ CallAvgParamDiff

SpecDelta == InitCross /\ [][NextDelta]_vars

\* C10: for strictly sorted lists L and R, empty or of different lengths
\* included, disjoint_excess_count(L, R) and disjoint_excess_count(R, L)
\* are the same (disjoint, excess) pair.
C10_DisjointExcessSymmetric ==
    (pc = "measured" /\ ret[1] = "disjoint_excess_count") => ret[2] = ret[3]

\* lists of different lengths whose last matching id ends the shorter one,
\* with a disjoint id before it: both counts are positive
C10_Witness ==
    /\ pc = "measured"
    /\ ret[1] = "disjoint_excess_count"
    /\ Len(args[1]) < Len(args[2])
    /\ args[1] # <<>>
    /\ args[1][Len(args[1])].inno \in Innos(args[2])
    /\ ret[2][1] > 0
    /\ ret[2][2] > 0

(************************************************************************)
(* population_alloc alone.  Species k is represented by one connection  *)
(* of id k; its members carry any fitness of FitValues.                 *)
(* args = <<species, population, top_p>>, ret = the outcome.            *)
(************************************************************************)
FitValues == {0 - (UsizeMax \div 2 + 1), 0 - 1, 0, 1, UsizeMax \div 2}
TopPs == {<<1, 2>>, <<1, 1>>}

ReprOf(k) == <<CTRConnection(k, 1, 0, 1, TRUE)>>

MemberOf(k, fit) == <<[Genome_new(0, 1) EXCEPT !.connections = ReprOf(k)], fit>>

SeqsUpTo(S, n) == UNION {[1 .. len -> S] : len \in 0 .. n}

AllocSpecies ==
    {[k \in DOMAIN fs |-> Specie(ReprOf(k), [i \in DOMAIN fs[k] |-> MemberOf(k, fs[k][i])])] :
        fs \in SeqsUpTo(SeqsUpTo(FitValues, MaxMembers), MaxSpecies)}

InitAlloc ==
    /\ \E species \in AllocSpecies, population_target \in 0 .. MaxPopulation, top_p \in TopPs :
          args = <<species, population_target, top_p>>
    /\ ret = <<>>
    /\ pc = "alloc"
    /\ last = "species"
    /\ population = <<>>
    /\ offspring = <<>>
    /\ innogen = InnoGen_new(0)
    /\ generation = 0
    /\ mutations = 0

CallPopulationAlloc ==
    /\ pc = "alloc"
    /\ \E out \in population_alloc(args[1], args[2], args[3]) :
          /\ ret' = out
          /\ pc' = IF out.panic THEN "panic" ELSE "allocated"
    /\ last' = "population_alloc"
    /\ UNCHANGED <<population, offspring, innogen, generation, mutations, args>>

NextAlloc == CallPopulationAlloc

SpecAlloc == InitAlloc /\ [][NextAlloc]_vars

RECURSIVE SumSizes(_)
SumSizes(sizes) ==
    IF DOMAIN sizes = {} THEN 0
    ELSE LET key == CHOOSE x \in DOMAIN sizes : TRUE
         IN  sizes[key] + SumSizes([x \in DOMAIN sizes \ {key} |-> sizes[x]])

\* C7: for every list of species, every population target N and every
\* top_p in (0, 1], the sizes population_alloc returns sum to at most N.
C7_AllocationCap ==
    pc = "allocated" => SumSizes(ret.sizes) <= args[2]

(************************************************************************)
(* Speciation and the reproduction of one species.  The genomes are     *)
(* those population_init(0, 1, 1) connects from the bias node, with the *)
(* weight redrawn, scored with any fitness of Fitnesses.  First        *)
(* args = <<genomes>> and ret = speciate(genomes); then                 *)
(* args = <<specie, size>> and ret = the outcome of                     *)
(* specie.reproduce(size).                                              *)
(************************************************************************)
SpecieWeights == {1, 2, 11}
Fitnesses == {1, 2}

ScoredGenomes ==
    {<<[pi.v[1] EXCEPT !.connections[1].weight = w], fit>> :
        pi \in {x \in population_init(0, 1, 1) :
                  x.v[1].connections[1].from = 1 /\ x.v[1].connections[1].to = 0},
        w \in SpecieWeights, fit \in Fitnesses}

InitSpecie ==
    /\ \E len \in 1 .. MaxGenomes : \E genomes \in [1 .. len -> ScoredGenomes] :
          args = <<genomes>>
    /\ ret = <<>>
    /\ pc = "genomes"
    /\ last = "genomes"
    /\ population = <<>>
    /\ offspring = <<>>
    /\ innogen = InnoGen_new(1)
    /\ generation = 0
    /\ mutations = 0

CallSpeciate ==
    /\ pc = "genomes"
    /\ ret' = speciate(args[1])
    /\ pc' = "speciated"
    /\ last' = "speciate"
    /\ UNCHANGED <<population, offspring, innogen, generation, mutations, args>>

CallReproduce(k, size) ==
    /\ pc = "speciated"
    /\ k \in DOMAIN ret
    /\ args' = <<ret[k], size>>
    /\ \E out \in reproduce(ret[k], size, innogen, MaxReproduceMutations) :
          /\ ret' = out
          /\ innogen' = out.ig
          /\ mutations' = out.used
          /\ pc' = IF out.err THEN "error" ELSE "reproduced"
    /\ last' = "reproduce"
    /\ UNCHANGED <<population, offspring, generation>>

NextSpecie ==
    \/ CallSpeciate
    \/ \E k \in 1 .. MaxGenomes, size \in 0 .. MaxSize : CallReproduce(k, size)

SpecSpecie == InitSpecie /\ [][NextSpecie]_vars

\* C8: for a species produced by speciate and any size S >= 1, the offspring
\* Specie::reproduce returns contain a verbatim clone of a member with the
\* highest fitness of the species.
C8_ElitePreserved ==
    (pc = "reproduced" /\ args[2] >= 1) =>
        LET members == args[1].members
        IN  \E j \in DOMAIN members :
                /\ \A i \in DOMAIN members : members[i][2] <= members[j][2]
                /\ \E i \in DOMAIN ret.pop : ret.pop[i] = members[j][1]

(************************************************************************)
(* One genome of population_init(0, 1, 1), grown by mutations that      *)
(* share the generation's registry with the other genomes (OtherPath:   *)
(* a path another genome registers) across generations (NewRegistry:    *)
(* population_reproduce starts InnoGen::new(inno_head)).                *)
(* population = <<genome>>; after a bisection                           *)
(* args = <<genome before, registry before, pick_idx>> and              *)
(* ret = what mutate_bisection returned; after a mutate_connection      *)
(* args = <<genome before, registry before>> and ret = what it returned.*)
(************************************************************************)
OtherPaths == {<<0, 2>>, <<2, 0>>, <<1, 2>>, <<2, 1>>}

InitBisect ==
    /\ \E pi \in population_init(0, 1, 1) :
          /\ population = pi.v
          /\ innogen = InnoGen_new(pi.head)
    /\ args = <<>>
    /\ ret = <<>>
    /\ pc = "build"
    /\ last = "population_init"
    /\ offspring = <<>>
    /\ generation = 0
    /\ mutations = 0

StepParams ==
    /\ pc = "build" /\ mutations < MaxBuild
    /\ \E g \in mutate_params(population[1]) : population' = <<g>>
    /\ mutations' = mutations + 1
    /\ last' = "mutate_params"
    /\ args' = <<>> /\ ret' = <<>>
    /\ UNCHANGED <<offspring, pc, innogen, generation>>

StepConnection ==
    /\ pc = "build" /\ mutations < MaxBuild
    /\ \E opt \in gen_connection_path(population[1]) :
          LET m == mutate_connection(population[1], innogen, opt)
          IN  /\ args' = <<population[1], innogen>>
              /\ ret' = m
              /\ population' = <<m.g>>
              /\ innogen' = m.ig
              /\ pc' = IF m.panic THEN "panic" ELSE "build"
    /\ mutations' = mutations + 1
    /\ last' = "mutate_connection"
    /\ UNCHANGED <<offspring, generation>>

StepBisection(pick_idx) ==
    /\ pc = "build" /\ mutations < MaxBuild
    /\ pick_idx < Len(population[1].connections)
    /\ LET m == mutate_bisection(population[1], innogen, pick_idx)
       IN  /\ args' = <<population[1], innogen, pick_idx>>
           /\ ret' = m
           /\ population' = <<m.g>>
           /\ innogen' = m.ig
           /\ pc' = IF m.panic THEN "panic" ELSE "build"
    /\ mutations' = mutations + 1
    /\ last' = "mutate_bisection"
    /\ UNCHANGED <<offspring, generation>>

OtherPath(p) ==
    /\ pc = "build" /\ mutations < MaxBuild
    /\ innogen' = InnoGen_path(innogen, p).ig
    /\ mutations' = mutations + 1
    /\ last' = "InnoGen_path"
    /\ args' = <<>> /\ ret' = <<>>
    /\ UNCHANGED <<population, offspring, pc, generation>>

NewRegistry ==
    /\ pc = "build" /\ mutations < MaxBuild
    /\ innogen.seen # {}
    /\ innogen' = InnoGen_new(innogen.head)
    /\ generation' = generation + 1
    /\ mutations' = mutations + 1
    /\ last' = "population_reproduce"
    /\ args' = <<>> /\ ret' = <<>>
    /\ UNCHANGED <<population, offspring, pc>>

NextBisect ==
    \/ StepParams
    \/ StepConnection
    \/ \E pick_idx \in 0 .. MaxBuild : StepBisection(pick_idx)
    \/ \E p \in OtherPaths : OtherPath(p)
    \/ NewRegistry

SpecBisect == InitBisect /\ [][NextBisect]_vars

\* C9: mutate_bisection of connection C of genome G adds one Internal node
\* at index k = old node count and appends two connections, leaves C in
\* place but disabled and everything else unchanged; the lower connection is
\* (C.from -> k), weight 1, enabled, with the registry's id of (C.from, k);
\* the upper is (k -> C.to), weight C.weight, enabled, with the registry's id
\* of (k, C.to); with the registry head above C's id the two new ids differ
\* from each other and from C's id.
C9_BisectionConservation ==
    last = "mutate_bisection" =>
        LET G == args[1]
            registry == args[2]
            C == G.connections[args[3] + 1]
            k == Len(G.nodes)
            n == Len(G.connections)
            after == ret.g
            lower == after.connections[n + 1]
            upper == after.connections[n + 2]
        IN  /\ ~ret.panic
            /\ after.sensory = G.sensory /\ after.action = G.action
            /\ after.nodes = Append(G.nodes, "Internal")
            /\ Len(after.connections) = n + 2
            /\ \A i \in 1 .. n :
                  after.connections[i] =
                      IF i = args[3] + 1 THEN [C EXCEPT !.enabled = FALSE]
                      ELSE G.connections[i]
            /\ lower = CTRConnection(InnoGen_path(registry, <<C.from, k>>).id,
                                     C.from, k, 1, TRUE)
            /\ upper = CTRConnection(
                           InnoGen_path(InnoGen_path(registry, <<C.from, k>>).ig,
                                        <<k, C.to>>).id,
                           k, C.to, C.weight, TRUE)
            /\ <<<<C.from, k>>, lower.inno>> \in ret.ig.seen
            /\ <<<<k, C.to>>, upper.inno>> \in ret.ig.seen
            /\ registry.head > C.inno =>
                  /\ lower.inno # upper.inno
                  /\ lower.inno # C.inno
                  /\ upper.inno # C.inno

\* the bisected connection is not the last one, is enabled and carries a
\* weight other than 1, and the registry had already handed out the lower id
C9_Witness ==
    /\ last = "mutate_bisection"
    /\ args[3] + 1 < Len(args[1].connections)
    /\ args[1].connections[args[3] + 1].weight # 1
    /\ args[1].connections[args[3] + 1].enabled
    /\ args[2].head > args[1].connections[args[3] + 1].inno
    /\ \E e \in args[2].seen :
          e[1] = <<args[1].connections[args[3] + 1].from, Len(args[1].nodes)>>

(************************** claims on SpecDelta ***************************)
\* C11: when either list is empty, disjoint_excess_count returns disjoint 0
\* and excess the length of the other list, in both argument orders, and
\* avg_param_diff returns 0.
C11_EmptyInvariants ==
    (pc = "measured" /\ (args[1] = <<>> \/ args[2] = <<>>)) =>
        LET other == IF args[1] = <<>> THEN args[2] ELSE args[1]
        IN  /\ ret[1] = "disjoint_excess_count" =>
                  ret[2] = <<0, Len(other)>> /\ ret[3] = <<0, Len(other)>>
            /\ ret[1] = "avg_param_diff" => ret[2][1] = 0 /\ ret[3][1] = 0

\* disjoint_excess_count of a list of several connections against the empty one
C11_Witness ==
    /\ pc = "measured"
    /\ ret[1] = "disjoint_excess_count"
    /\ Len(args[1]) >= 2
    /\ args[2] = <<>>

\* the largest id of a non-empty list
MaxInnoOf(s) == CHOOSE x \in Innos(s) : \A y \in Innos(s) : y <= x

\* ids of a with no match in b, above and not above the largest id of b
ExcessOf(a, b) == {x \in Innos(a) \ Innos(b) : x > MaxInnoOf(b)}

DisjointOf(a, b) == {x \in Innos(a) \ Innos(b) : x < MaxInnoOf(b)}

\* C12: for non-empty strictly sorted L and R, excess is the number of
\* connections, on either side, whose id is above the largest id of the
\* other list, disjoint is the number of the other unmatched connections,
\* and disjoint + excess + 2 * matching = |L| + |R|.
C12_DisjointExcessCounts ==
    (pc = "measured" /\ ret[1] = "disjoint_excess_count"
        /\ args[1] # <<>> /\ args[2] # <<>>) =>
        LET l == args[1]
            r == args[2]
        IN  /\ ret[2][2] = Cardinality(ExcessOf(l, r)) + Cardinality(ExcessOf(r, l))
            /\ ret[2][1] = Cardinality(DisjointOf(l, r)) + Cardinality(DisjointOf(r, l))
            /\ ret[2][1] + ret[2][2] + 2 * Cardinality(Innos(l) \cap Innos(r))
                  = Len(l) + Len(r)

\* a matching id, a disjoint id of R and an excess id of L
C12_Witness ==
    /\ pc = "measured"
    /\ ret[1] = "disjoint_excess_count"
    /\ Innos(args[1]) \cap Innos(args[2]) # {}
    /\ args[1] # <<>> /\ args[2] # <<>>
    /\ DisjointOf(args[2], args[1]) # {}
    /\ ExcessOf(args[1], args[2]) # {}

(************************** claims on SpecSpecie **************************)
\* the members of all species, species after species
RECURSIVE AllMembers(_)
AllMembers(sp) ==
    IF sp = <<>> THEN <<>>
    ELSE AllMembers(SubSeq(sp, 1, Len(sp) - 1)) \o sp[Len(sp)].members

Occurrences(s, x) == Cardinality({i \in DOMAIN s : s[i] = x})

Compatible(repr, genome) == RatLess(delta(repr, genome.connections), SPECIE_THRESHOLD)

\* the position in the input of the first genome that no earlier species takes
\* after i - 1 species have been founded
FounderOf(genomes, sp, i) ==
    CHOOSE k \in DOMAIN genomes :
        /\ \A j \in 1 .. i - 1 : ~Compatible(sp[j].repr, genomes[k][1])
        /\ \A k2 \in 1 .. k - 1 :
              \E j \in 1 .. i - 1 : Compatible(sp[j].repr, genomes[k2][1])

\* C13: speciate partitions its input; every genome sits in the first
\* species, in creation order, whose representative has delta < 4 against
\* it; a species is appended, with the genome's connections as
\* representative, only for a genome no existing species matches; every
\* species is non-empty and ordered by fitness descending.
C13_SpeciatePartition ==
    pc = "speciated" =>
        LET genomes == args[1]
            sp == ret
        IN  /\ Len(AllMembers(sp)) = Len(genomes)
            /\ \A k \in DOMAIN genomes :
                  Occurrences(AllMembers(sp), genomes[k]) = Occurrences(genomes, genomes[k])
            /\ \A i \in DOMAIN sp :
                  /\ sp[i].members # <<>>
                  /\ \A a, b \in DOMAIN sp[i].members :
                        a < b => sp[i].members[a][2] >= sp[i].members[b][2]
                  /\ \A a \in DOMAIN sp[i].members :
                        /\ Compatible(sp[i].repr, sp[i].members[a][1])
                        /\ \A j \in 1 .. i - 1 :
                              ~Compatible(sp[j].repr, sp[i].members[a][1])
                  /\ sp[i].repr = genomes[FounderOf(genomes, sp, i)][1].connections

\* two species, the first holding a genome that the second would take too
C13_Witness ==
    /\ pc = "speciated"
    /\ Len(ret) >= 2
    /\ \E a \in DOMAIN ret[1].members :
          /\ Compatible(ret[2].repr, ret[1].members[a][1])
          /\ ret[1].members[a][1].connections # ret[1].repr

(************************** claims on Spec ********************************)
\* C14: for every genome with n nodes, network() yields an n x n matrix W
\* with W[c.from, c.to] = c.weight for every enabled connection c (also when
\* several connections share one (from, to) path) and W[i, j] = 0 for every
\* (i, j) that is the path of no enabled connection; the sensory range is
\* [0, sensory) and the action range is [sensory, sensory + action).
C14_NetworkMatrix ==
    \A g \in Genomes :
        LET n == Len(g.nodes)
            net == network(g)
            W == net.w
        IN  /\ DOMAIN W = (0..(n - 1)) \X (0..(n - 1))
            /\ \A k \in DOMAIN g.connections :
                  g.connections[k].enabled =>
                      W[<<g.connections[k].from, g.connections[k].to>>]
                          = g.connections[k].weight
            /\ \A ij \in DOMAIN W :
                  (\A k \in DOMAIN g.connections :
                      g.connections[k].enabled =>
                          <<g.connections[k].from, g.connections[k].to>> # ij)
                  => W[ij] = 0
            /\ net.sensory = <<0, g.sensory>>
            /\ net.action = <<g.sensory, g.sensory + g.action>>

(************************************************************************)
(* SpecPick: pick_gene on one connection of the base parent and, at a   *)
(* matched id, the connection of the other parent.                      *)
(* args = <<base_conn, opt_conn>>; after the call                       *)
(* args = <<base_conn, opt_conn, roll>> and ret = the connection        *)
(* returned.                                                            *)
(************************************************************************)
\* the connections a parent may hold at one id
PickConns(inno) ==
    {CTRConnection(inno, 0, inno, w, e) : w \in Weights, e \in BOOLEAN}

InitPick ==
    /\ \E inno \in 0..(MaxInno - 1) :
          \E base_conn \in PickConns(inno) :
              \E opt_conn \in {None} \cup {Some(c) : c \in PickConns(inno)} :
                  args = <<base_conn, opt_conn>>
    /\ ret = <<>>
    /\ pc = "pick"
    /\ last = "init"
    /\ population = <<>>
    /\ offspring = <<>>
    /\ innogen = InnoGen_new(0)
    /\ generation = 0
    /\ mutations = 0

CallPickGene(roll) ==
    /\ pc = "pick"
    /\ ret' = pick_gene(args[1], args[2], roll)
    /\ args' = <<args[1], args[2], roll>>
    /\ pc' = "picked"
    /\ last' = "pick_gene"
    /\ UNCHANGED <<population, offspring, innogen, generation, mutations>>

NextPick == \E roll \in Rolls : CallPickGene(roll)

SpecPick == InitPick /\ [][NextPick]_vars

\* C15: in crossover, whenever the NewDisabled event happens for a produced
\* connection, that connection is disabled in the child; and whenever at
\* least one source connection at a matched id is disabled and the
\* KeepDisabled event happens, the resulting connection is disabled in the
\* child.
C15_DisablePropagation ==
    pc = "picked" =>
        LET base_conn == args[1]
            opt_conn == args[2]
            roll == args[3]
        IN  /\ roll.NewDisabled => ~ret.enabled
            /\ (/\ opt_conn # None
                /\ ~base_conn.enabled \/ ~opt_conn[1].enabled
                /\ roll.KeepDisabled)
               => ~ret.enabled

(************************* claims on SpecBisect ***************************)
\* the (from, to) pairs over the node indices of g that no connection of g has
OpenPairs(g) ==
    {p \in (0..(Len(g.nodes) - 1)) \X (0..(Len(g.nodes) - 1)) :
        \A k \in DOMAIN g.connections :
            <<g.connections[k].from, g.connections[k].to>> # p}

\* C16: on a genome with at least one unoccupied (from, to) node pair,
\* mutate_connection appends exactly one connection whose (from, to) is the
\* path of no connection already in the genome, with the registry's id of
\* that path, weight 1 and enabled, and leaves the existing connections and
\* the nodes unchanged; the new id differs from every id already in the
\* genome when the registry head is above all of them.
C16_MutateConnectionAppends ==
    (last = "mutate_connection" /\ OpenPairs(args[1]) # {}) =>
        LET G == args[1]
            registry == args[2]
            n == Len(G.connections)
            after == ret.g
            new == after.connections[n + 1]
        IN  /\ ~ret.panic
            /\ Len(after.connections) = n + 1
            /\ SubSeq(after.connections, 1, n) = G.connections
            /\ after.nodes = G.nodes
            /\ after.sensory = G.sensory /\ after.action = G.action
            /\ <<new.from, new.to>> \in OpenPairs(G)
            /\ new.inno = InnoGen_path(registry, <<new.from, new.to>>).id
            /\ ret.ig = InnoGen_path(registry, <<new.from, new.to>>).ig
            /\ new.weight = 1
            /\ new.enabled
            /\ (\A k \in 1..n : G.connections[k].inno < registry.head)
               => \A k \in 1..n : G.connections[k].inno # new.inno

\* a genome that holds two or more connections gets, from the registry of a
\* later generation that has already numbered the path, a connection on an
\* open path
C16_Witness ==
    /\ last = "mutate_connection"
    /\ ~ret.panic
    /\ Len(args[1].connections) >= 2
    /\ generation >= 1
    /\ LET new == ret.g.connections[Len(ret.g.connections)]
       IN  /\ <<<<new.from, new.to>>, new.inno>> \in args[2].seen
           /\ <<new.from, new.to>> \in OpenPairs(args[1])

(************************************************************************)
(* SpecMutate: one lineage of population_init(sensory, action, 1) that  *)
(* is mutated once per generation, each generation with its own         *)
(* registry.  After a call args = <<genome before, registry before>>    *)
(* and ret = the outcome of mutate, [g, ig, used, panic].               *)
(************************************************************************)
InitMutate ==
    /\ \E io \in IoSizes :
          \E pi \in population_init(io[1], io[2], 1) :
              /\ population = pi.v
              /\ innogen = InnoGen_new(pi.head)
    /\ args = <<>>
    /\ ret = <<>>
    /\ pc = "run"
    /\ last = "population_init"
    /\ offspring = <<>>
    /\ generation = 0
    /\ mutations = 0

\* child.mutate(rng, innogen) on the offspring of the generation
CallMutate ==
    /\ pc = "run" /\ mutations < MaxMutations
    /\ \E m \in mutate(population[1], innogen, MaxMutations - mutations) :
          /\ args' = <<population[1], innogen>>
          /\ ret' = m
          /\ population' = <<m.g>>
          /\ innogen' = m.ig
          /\ mutations' = mutations + m.used
          /\ pc' = IF m.panic THEN "panic" ELSE "mutated"
    /\ last' = "mutate"
    /\ UNCHANGED <<offspring, generation>>

\* the next population_reproduce: InnoGen::new(inno_head)
MutateNextGeneration ==
    /\ pc = "mutated" /\ generation < MaxMutations
    /\ innogen' = InnoGen_new(innogen.head)
    /\ generation' = generation + 1
    /\ pc' = "run"
    /\ last' = "population_reproduce"
    /\ UNCHANGED <<population, offspring, mutations, args, ret>>

NextMutate ==
    \/ CallMutate
    \/ MutateNextGeneration

SpecMutate == InitMutate /\ [][NextMutate]_vars

\* C18: when mutate rolls the MutateConnection event on a genome whose node
\* pairs are fully saturated, the mutation is skipped: the call does not
\* abort, the genome keeps the nodes and the connections (id, path, enabled)
\* it had before the connection step, and reproduction continues.
C18_SaturationRecoverable ==
    (last = "mutate" /\ OpenPairs(args[1]) = {}) =>
        LET G == args[1]
            n == Len(G.connections)
        IN  /\ ~ret.panic
            /\ pc # "panic"
            /\ SubSeq(ret.g.nodes, 1, Len(G.nodes)) = G.nodes
            /\ Len(ret.g.connections) >= n
            /\ \A k \in 1..n :
                  /\ ret.g.connections[k].inno = G.connections[k].inno
                  /\ ret.g.connections[k].from = G.connections[k].from
                  /\ ret.g.connections[k].to = G.connections[k].to

(************************************************************************)
(* SpecPath: gen_connection_path, one turn of its loop per step, on a   *)
(* genome of population_init grown by mutate_connection and             *)
(* mutate_bisection.  population = <<genome>>; in the loop              *)
(* args = <<saturated>>; ret = the value returned.                      *)
(************************************************************************)
InitPath ==
    /\ \E io \in IoSizes :
          \E pi \in population_init(io[1], io[2], 1) :
              /\ population = pi.v
              /\ innogen = InnoGen_new(pi.head)
    /\ args = <<>>
    /\ ret = <<>>
    /\ pc = "build"
    /\ last = "population_init"
    /\ offspring = <<>>
    /\ generation = 0
    /\ mutations = 0

PathConnection ==
    /\ pc = "build" /\ mutations < MaxPathBuild
    /\ \E opt \in gen_connection_path(population[1]) :
          LET m == mutate_connection(population[1], innogen, opt)
          IN  /\ ~m.panic
              /\ population' = <<m.g>>
              /\ innogen' = m.ig
    /\ mutations' = mutations + 1
    /\ last' = "mutate_connection"
    /\ UNCHANGED <<offspring, pc, generation, args, ret>>

PathBisection(pick_idx) ==
    /\ pc = "build" /\ mutations < MaxPathBuild
    /\ pick_idx < Len(population[1].connections)
    /\ LET m == mutate_bisection(population[1], innogen, pick_idx)
       IN  /\ population' = <<m.g>>
           /\ innogen' = m.ig
    /\ mutations' = mutations + 1
    /\ last' = "mutate_bisection"
    /\ UNCHANGED <<offspring, pc, generation, args, ret>>

\* let mut saturated = HashSet::new();
PathCall ==
    /\ pc = "build"
    /\ pc' = "loop"
    /\ args' = <<{}>>
    /\ last' = "gen_connection_path"
    /\ UNCHANGED <<population, offspring, innogen, generation, mutations, ret>>

\* one turn of the loop: choose(rng)? returns None when no from is left
PathTurn ==
    /\ pc = "loop"
    /\ LET g == population[1]
           saturated == args[1]
           n == Len(g.nodes)
           froms == {f \in 0..(n - 1) : f \notin saturated}
       IN  IF froms = {}
           THEN /\ ret' = None
                /\ pc' = "returned"
                /\ args' = args
           ELSE \E from \in froms :
                   LET exclude == {g.connections[k].to :
                                     k \in {j \in DOMAIN g.connections :
                                              g.connections[j].from = from}}
                       tos == {t \in 0..(n - 1) : t \notin exclude}
                   IN  IF tos # {}
                       THEN \E to \in tos :
                               /\ ret' = Some(<<from, to>>)
                               /\ pc' = "returned"
                               /\ args' = args
                       ELSE /\ args' = <<saturated \cup {from}>>
                            /\ UNCHANGED <<ret, pc>>
    /\ last' = "loop"
    /\ UNCHANGED <<population, offspring, innogen, generation, mutations>>

NextPath ==
    \/ PathConnection
    \/ \E pick_idx \in 0 .. MaxPathBuild : PathBisection(pick_idx)
    \/ PathCall
    \/ PathTurn

\* the loop is straight-line code: a turn that can run does run
SpecPath == InitPath /\ [][NextPath]_vars /\ WF_vars(PathTurn)

\* what C17 lets gen_connection_path return on g
OpenPathResults(g) ==
    IF OpenPairs(g) = {} THEN {None} ELSE {Some(p) : p \in OpenPairs(g)}

ShrinkPs ==
    {<<0 - 1, 2>>, <<0, 1>>, <<1, 6>>, <<1, 3>>, <<1, 2>>, <<2, 3>>, <<1, 1>>, <<3, 2>>}

ShrinkGenomes ==
    {<<[pi.v[1] EXCEPT !.connections[1].weight = w], fit>> :
        pi \in population_init(0, 0, 1), w \in SpecieWeights, fit \in Fitnesses}

InitShrink ==
    /\ \E len \in 1 .. MaxGenomes : \E genomes \in [1 .. len -> ShrinkGenomes] :
          args = <<genomes>>
    /\ ret = <<>>
    /\ pc = "genomes"
    /\ last = "genomes"
    /\ population = <<>>
    /\ offspring = <<>>
    /\ innogen = InnoGen_new(1)
    /\ generation = 0
    /\ mutations = 0

CallShrinkTopP(k, p) ==
    /\ pc = "speciated"
    /\ k \in DOMAIN ret
    /\ args' = <<ret[k], p>>
    /\ LET out == shrink_top_p(ret[k], p)
       IN  /\ ret' = out
           /\ pc' = IF out.panic THEN "panic" ELSE "shrunk"
    /\ last' = "shrink_top_p"
    /\ UNCHANGED <<population, offspring, innogen, generation, mutations>>

CallReproduceShrunk(size) ==
    /\ pc = "shrunk"
    /\ args' = <<ret.specie, size, innogen>>
    /\ \E out \in reproduce(ret.specie, size, innogen, MaxReproduceMutations) :
          /\ ret' = out
          /\ innogen' = out.ig
          /\ mutations' = out.used
          /\ pc' = IF out.err THEN "error" ELSE "reproduced"
    /\ last' = "reproduce"
    /\ UNCHANGED <<population, offspring, generation>>

NextShrink ==
    \/ CallSpeciate
    \/ \E k \in 1 .. MaxGenomes, p \in ShrinkPs : CallShrinkTopP(k, p)
    \/ \E size \in 0 .. MaxSize : CallReproduceShrunk(size)

SpecShrink == InitShrink /\ [][NextShrink]_vars

CopyOffspring(specie, regs, g) ==
    \E k \in DOMAIN specie.members : \E ig \in regs :
        \E mu \in mutate(specie.members[k][1], ig, MaxReproduceMutations) :
            ~mu.panic /\ mu.g = g

\* g is what reproduce_crossover pushes for two members at different
\* positions: their crossover child, mutated under one of the registries regs
CrossoverOffspring(specie, regs, g) ==
    \E l, r \in DOMAIN specie.members : \E ig \in regs :
        /\ l # r
        /\ \E child \in reproduce_with(specie.members[l][1], specie.members[r][1],
                                       partial_cmp(specie.members[l][2],
                                                   specie.members[r][2])) :
              \E mu \in mutate(child, ig, MaxReproduceMutations) :
                  ~mu.panic /\ mu.g = g

\* C20: Specie::reproduce(S) returns an empty list when S = 0, fails when
\* S > 0 and the species is empty, and otherwise returns exactly S genomes:
\* 1 elite (a clone of a member), then size_copy copy-offspring, then
\* size_crossover crossover-offspring, where with q = (S - 1) div 4
\* size_copy = S - 1 if q = 0 or the species has exactly one member, else
\* size_copy = q, and size_crossover = (S - 1) - size_copy.
C20_ReproduceSizes ==
    last = "reproduce" =>
        LET specie == args[1]
            S == args[2]
            regs == {args[3], ret.ig}
            q == (S - 1) \div 4
            size_copy == IF q = 0 \/ Len(specie.members) = 1 THEN S - 1 ELSE q
            size_crossover == (S - 1) - size_copy
        IN  IF S = 0 THEN ~ret.err /\ ret.pop = <<>>
            ELSE IF specie.members = <<>> THEN ret.err
            ELSE /\ ~ret.err
                 /\ Len(ret.pop) = S
                 /\ 1 + size_copy + size_crossover = S
                 /\ \E k \in DOMAIN specie.members : ret.pop[1] = specie.members[k][1]
                 /\ \A i \in 2 .. (1 + size_copy) :
                       CopyOffspring(specie, regs, ret.pop[i])
                 /\ \A i \in (2 + size_copy) .. S :
                       CrossoverOffspring(specie, regs, ret.pop[i])

(************************************************************************)
(* SpecPopulation: one generation's reproduction.  The scored genomes   *)
(* are speciated, every species is shrunk by shrink_top_p(p), and       *)
(* population_reproduce runs: population_alloc, a registry              *)
(* InnoGen::new(inno_head), then Specie::reproduce species by species.  *)
(* From the allocation on args = <<species, population, top_p, i>> with *)
(* i the species reproduce is at, ret = the sizes, offspring = the      *)
(* genomes collected.                                                   *)
(************************************************************************)
PopFitnesses == {0 - 1, 1, 2}
PopWeights == {1, 11}
PopTargets == {0, 2, MaxSize}
PopPs == {<<1, 3>>, <<1, 2>>, <<1, 1>>, <<3, 2>>}

PopGenomes ==
    {<<[pi.v[1] EXCEPT !.connections[1].weight = w], fit>> :
        pi \in {x \in population_init(0, 1, 1) :
                  x.v[1].connections[1].from = 1 /\ x.v[1].connections[1].to = 0},
        w \in PopWeights, fit \in PopFitnesses}

InitPopulation ==
    /\ \E len \in 1 .. MaxGenomes : \E genomes \in [1 .. len -> PopGenomes] :
          args = <<genomes>>
    /\ ret = <<>>
    /\ pc = "genomes"
    /\ last = "genomes"
    /\ population = <<>>
    /\ offspring = <<>>
    /\ innogen = InnoGen_new(1)
    /\ generation = 0
    /\ mutations = 0

\* for every species: specie.shrink_top_p(p)
PopShrink(p) ==
    /\ pc = "speciated"
    /\ LET out == [k \in DOMAIN ret |-> shrink_top_p(ret[k], p)]
       IN  /\ ret' = [k \in DOMAIN ret |-> out[k].specie]
           /\ pc' = IF \E k \in DOMAIN out : out[k].panic THEN "panic" ELSE "truncated"
    /\ args' = <<args[1], p>>
    /\ last' = "shrink_top_p"
    /\ UNCHANGED <<population, offspring, innogen, generation, mutations>>

\* population_reproduce up to the flat_map
PopAlloc(population_target, top_p) ==
    /\ pc = "truncated"
    /\ \E out \in population_alloc(ret, population_target, top_p) :
          /\ ret' = out.sizes
          /\ pc' = IF out.panic THEN "panic" ELSE "reproduce"
    /\ args' = <<ret, population_target, top_p, 1>>
    /\ innogen' = InnoGen_new(innogen.head)
    /\ last' = "population_alloc"
    /\ UNCHANGED <<population, offspring, generation, mutations>>

\* *species_pop.get(&specie.repr).unwrap_or(&0)
PopSize_of(sizes, specie) ==
    IF specie.repr \in DOMAIN sizes THEN sizes[specie.repr] ELSE 0

\* one species of the flat_map: specie.reproduce(size, &mut innogen, rng).unwrap()
PopReproduce ==
    /\ pc = "reproduce"
    /\ args[4] <= Len(args[1])
    /\ LET specie == args[1][args[4]]
       IN  \E out \in reproduce(specie, PopSize_of(ret, specie), innogen,
                                MaxReproduceMutations - mutations) :
              /\ innogen' = out.ig
              /\ mutations' = mutations + out.used
              /\ IF out.err
                 THEN /\ pc' = "unwrap_panic"
                      /\ UNCHANGED <<offspring, args>>
                 ELSE /\ pc' = "reproduce"
                      /\ offspring' = offspring \o out.pop
                      /\ args' = [args EXCEPT ![4] = @ + 1]
    /\ last' = "reproduce"
    /\ UNCHANGED <<population, generation, ret>>

\* (collected, innogen.head) is returned and becomes the population
PopReturn ==
    /\ pc = "reproduce"
    /\ args[4] > Len(args[1])
    /\ population' = offspring
    /\ generation' = generation + 1
    /\ pc' = "done"
    /\ last' = "population_reproduce"
    /\ UNCHANGED <<offspring, innogen, mutations, args, ret>>

NextPopulation ==
    \/ CallSpeciate
    \/ \E p \in PopPs : PopShrink(p)
    \/ \E population_target \in PopTargets, top_p \in TopPs :
          PopAlloc(population_target, top_p)
    \/ PopReproduce
    \/ PopReturn

SpecPopulation == InitPopulation /\ [][NextPopulation]_vars

\* the crossover quota Specie::reproduce derives from size for a species of
\* len members
CrossoverQuota(len, size) ==
    IF size <= 1 THEN 0
    ELSE LET q == (size - 1) \div 4
         IN  IF q = 0 \/ len = 1 THEN 0 ELSE (size - 1) - q

PoolItems == {"a", "b", "c"}

InitUniq ==
    /\ \E len \in 0 .. MaxPool : \E pool \in [1 .. len -> PoolItems] :
          args = <<pool>>
    /\ ret = <<>>
    /\ pc = "pool"
    /\ last = "pool"
    /\ population = <<>>
    /\ offspring = <<>>
    /\ innogen = InnoGen_new(0)
    /\ generation = 0
    /\ mutations = 0

CallUniq2(l, r) ==
    /\ pc = "pool"
    /\ LET pool == args[1]
       IN  IF Len(pool) < 2
           THEN /\ l = 0 /\ r = 0
                /\ ret' \in uniq_2(pool)
           ELSE /\ l < Len(pool) /\ r < Len(pool)
                /\ ret' = uniq_2_at(pool, l, r)
    /\ args' = <<args[1], l, r>>
    /\ pc' = "drawn"
    /\ last' = "uniq_2"
    /\ UNCHANGED <<population, offspring, innogen, generation, mutations>>

NextUniq == \E l, r \in 0 .. (MaxPool - 1) : CallUniq2(l, r)

SpecUniq == InitUniq /\ [][NextUniq]_vars

\* C22: uniq_2 returns None for a pool of fewer than 2 elements; for a
\* longer pool and every pair of draws it returns the elements at two
\* different positions, the first draw and the second draw, the second
\* shifted by +1 modulo the length when the draws are equal; for a pool of 2
\* elements both orders are among the results.
C22_Uniq2Distinct ==
    /\ pc = "drawn" =>
          LET pool == args[1]
              l == args[2]
              r == args[3]
              second == IF l = r THEN (r + 1) % Len(pool) ELSE r
          IN  IF Len(pool) < 2 THEN ret = None
              ELSE /\ second # l
                   /\ second < Len(pool)
                   /\ ret = Some(<<pool[l + 1], pool[second + 1]>>)
    /\ Len(args[1]) = 2 =>
          /\ Some(<<args[1][1], args[1][2]>>) \in uniq_2(args[1])
          /\ Some(<<args[1][2], args[1][1]>>) \in uniq_2(args[1])
    /\ Len(args[1]) < 2 => uniq_2(args[1]) = {None}

\* both draws hit the last position of a pool of different elements and the
\* second wrapped to position 0
C22_Witness ==
    /\ pc = "drawn"
    /\ Len(args[1]) >= 3
    /\ args[2] = Len(args[1]) - 1
    /\ args[3] = args[2]
    /\ ret = Some(<<args[1][Len(args[1])], args[1][1]>>)
    /\ args[1][Len(args[1])] # args[1][1]

(************************** claims on Spec ********************************)
\* the innovation ids the genomes of gs hold
InnosOf(gs) == UNION {{g.connections[k].inno : k \in DOMAIN g.connections} : g \in gs}

\* C23: across the generations, each registry starting at the head the
\* previous population_init / population_reproduce returned, the head is
\* above every id a genome holds; every id the generation's registry has
\* assigned is above every id of the generation's parents; and the head
\* never decreases.
C23_HeadAboveIds ==
    /\ [](/\ \A i \in InnosOf(Genomes) : i < innogen.head
          /\ \A e \in innogen.seen :
                /\ e[2] < innogen.head
                /\ \A i \in InnosOf(Range(population)) : i < e[2])
    /\ [][innogen'.head >= innogen.head]_vars

\* in a later generation an offspring holds an id its generation's registry
\* assigned, next to ids of its parents
C23_Witness ==
    /\ generation >= 1
    /\ InnosOf(Range(population)) # {}
    /\ \E g \in Range(offspring) :
          /\ \E e \in innogen.seen : e[2] \in InnosOf({g})
          /\ InnosOf({g}) \cap InnosOf(Range(population)) # {}

(************************************************************************)
(* SpecTwin: the two genomes of population_init(0, 1, 2), each bisected *)
(* at most once per generation under the generation's shared registry.  *)
(* ret = the bisections of the current generation, one record           *)
(* [genome, inno, lower, upper] each: the genome's position, the id of  *)
(* the bisected connection and the ids of the two connections added.    *)
(************************************************************************)
InitTwin ==
    /\ \E pi \in population_init(0, 1, 2) :
          /\ population = pi.v
          /\ innogen = InnoGen_new(pi.head)
    /\ args = <<>>
    /\ ret = {}
    /\ pc = "run"
    /\ last = "population_init"
    /\ offspring = <<>>
    /\ generation = 0
    /\ mutations = 0

TwinBisection(i, pick_idx) ==
    /\ pc = "run" /\ mutations < MaxMutations
    /\ i \in DOMAIN population
    /\ \A b \in ret : b.genome # i
    /\ pick_idx < Len(population[i].connections)
    /\ LET m == mutate_bisection(population[i], innogen, pick_idx)
           n == Len(m.g.connections)
       IN  /\ population' = [population EXCEPT ![i] = m.g]
           /\ innogen' = m.ig
           /\ ret' = ret \cup {[genome |-> i,
                                inno |-> population[i].connections[pick_idx + 1].inno,
                                lower |-> m.g.connections[n - 1].inno,
                                upper |-> m.g.connections[n].inno]}
    /\ mutations' = mutations + 1
    /\ last' = "mutate_bisection"
    /\ UNCHANGED <<offspring, pc, generation, args>>

\* the next population_reproduce: InnoGen::new(inno_head)
TwinNextGeneration ==
    /\ pc = "run" /\ generation < MaxMutations
    /\ innogen' = InnoGen_new(innogen.head)
    /\ generation' = generation + 1
    /\ ret' = {}
    /\ last' = "population_reproduce"
    /\ UNCHANGED <<population, offspring, pc, mutations, args>>

NextTwin ==
    \/ \E i \in 1 .. 2, pick_idx \in 0 .. (2 * MaxMutations) : TwinBisection(i, pick_idx)
    \/ TwinNextGeneration

SpecTwin == InitTwin /\ [][NextTwin]_vars

\* C24: if two genomes of one generation, sharing its registry, each bisect
\* the connection carrying the same innovation id, both lower connections
\* get one common id and both upper connections get one common id.
C24_BisectionsShareIds ==
    \A a, b \in ret :
        a.inno = b.inno => a.lower = b.lower /\ a.upper = b.upper

(************************* claims on SpecAlloc ****************************)
\* round(num / den), half away from zero, for den # 0
RoundRat(num, den) ==
    LET p == IF den < 0 THEN 0 - num ELSE num
        q == IF den < 0 THEN 0 - den ELSE den
    IN  IF p >= 0 THEN (2 * p + q) \div (2 * q)
        ELSE 0 - ((2 * (0 - p) + q) \div (2 * q))

\* the sum of the fitness of the members of specie over their number
MeanFitness(specie) ==
    LET RECURSIVE sum(_)
        sum(k) == IF k = 0 THEN 0 ELSE specie.members[k][2] + sum(k - 1)
    IN  <<sum(Len(specie.members)), Max(Len(specie.members), 1)>>

\* the allocation C25 describes for the species order[k], order[k + 1], ...
\* with cumulative sum acc so far; a share is a count of genomes, 0 when the
\* rounded value is negative
RECURSIVE ClaimedSizes(_, _, _, _, _, _, _)
ClaimedSizes(species, order, k, acc, population_target, top_p, total) ==
    IF k > Len(order) THEN <<>>
    ELSE LET specie == species[order[k]]
             fit == MeanFitness(specie)
             share == Max(0, RoundRat(population_target * top_p[2] * fit[1] * total[2],
                                      top_p[1] * fit[2] * total[1]))
         IN  IF acc + share < population_target
             THEN (specie.repr :> share)
                  @@ ClaimedSizes(species, order, k + 1, acc + share,
                                  population_target, top_p, total)
             ELSE (specie.repr :> (population_target - acc))

\* C25: population_alloc visits the species in descending order of mean
\* member fitness; a visited species receives
\* round((population / top_p) * fit / total) when the cumulative sum
\* including it stays strictly below population; the first species for
\* which it would not receives population minus the cumulative sum so far
\* and the loop stops, the sizes then summing to population; the species
\* after it receive nothing.
C25_AllocationWalk ==
    (/\ pc \in {"allocated", "panic"}
     /\ fit_total_fold([k \in DOMAIN args[1] |-> <<k, MeanFitness(args[1][k])>>],
                       1, <<0, 1>>)[1] # 0) =>
        LET species == args[1]
            total == fit_total_fold([k \in DOMAIN species |->
                                        <<k, MeanFitness(species[k])>>], 1, <<0, 1>>)
            \* the positions of species by descending mean fitness, ties in
            \* list order
            order == [j \in DOMAIN species |->
                        CHOOSE k \in DOMAIN species :
                            Cardinality({i \in DOMAIN species :
                                \/ RatLess(MeanFitness(species[k]), MeanFitness(species[i]))
                                \/ /\ ~RatLess(MeanFitness(species[i]), MeanFitness(species[k]))
                                   /\ i < k}) = j - 1]
            claimed == ClaimedSizes(species, order, 1, 0, args[2], args[3], total)
        IN  /\ pc = "allocated"
            /\ ret.sizes = claimed
            /\ (\E k \in DOMAIN species : species[k].repr \notin DOMAIN ret.sizes)
                  => SumSizes(ret.sizes) = args[2]

(***************** crossover.rs: delta on bounded inputs ******************)
\* weights of the connections of the compared lists
CompatWeights == {1, 2, 4}

\* sizes around the size from which delta normalises by the longer list
LongLens == {19, 20, 21}

\* strictly sorted lists over the ids below MaxInno, any weights
ShortLists ==
    UNION {{[k \in DOMAIN SortedSeq(S) |->
                CTRConnection(SortedSeq(S)[k], 0, SortedSeq(S)[k], w[SortedSeq(S)[k]], TRUE)] :
              w \in [0 .. MaxInno - 1 -> CompatWeights]} :
           S \in SUBSET (0 .. MaxInno - 1)}

\* strictly sorted lists of n consecutive ids from first on, one weight
LongLists ==
    {[k \in 1 .. n |-> CTRConnection(first + k - 1, 0, first + k - 1, w, TRUE)] :
        n \in LongLens, first \in {0, 2}, w \in Weights}

InitCompat ==
    /\ \E l \in ShortLists \cup LongLists, r \in ShortLists \cup LongLists :
          args = <<l, r>>
    /\ ret = <<>>
    /\ pc = "compat"
    /\ last = "lists"
    /\ population = <<>>
    /\ offspring = <<>>
    /\ innogen = InnoGen_new(0)
    /\ generation = 0
    /\ mutations = 0

\* delta(l, r), delta(r, l) and delta(l, l) of the two lists
CallDelta ==
    /\ pc = "compat"
    /\ ret' = [lr |-> delta(args[1], args[2]),
               rl |-> delta(args[2], args[1]),
               ll |-> delta(args[1], args[1])]
    /\ pc' = "measured"
    /\ last' = "delta"
    /\ UNCHANGED <<population, offspring, innogen, generation, mutations, args>>

NextCompat == CallDelta

SpecCompat == InitCompat /\ [][NextCompat]_vars

(************************** claims on SpecCompat **************************)
RatEq(a, b) == a[1] * b[2] = b[1] * a[2]

WeightOf(s, id) == (s[CHOOSE k \in DOMAIN s : s[k].inno = id]).weight

\* the sum of |l.weight - r.weight| over the ids of M
RECURSIVE SumWeightDiff(_, _, _)
SumWeightDiff(l, r, M) ==
    IF M = {} THEN 0
    ELSE LET id == CHOOSE x \in M : TRUE
         IN  Abs(WeightOf(l, id) - WeightOf(r, id)) + SumWeightDiff(l, r, M \ {id})

\* the value the formula of the claim gives for l and r
ClaimedDelta(l, r) ==
    LET n == Max(Len(l), Len(r))
        norm == IF n < 20 THEN 1 ELSE n
        M == Innos(l) \cap Innos(r)
        avg == IF M = {} THEN <<0, 1>> ELSE <<SumWeightDiff(l, r, M), Cardinality(M)>>
        disjoint == Cardinality(DisjointOf(l, r)) + Cardinality(DisjointOf(r, l))
        excess == Cardinality(ExcessOf(l, r)) + Cardinality(ExcessOf(r, l))
    IN  IF l = <<>> \/ r = <<>>
        THEN RatMul(EXCESS_COEFFICIENT, <<n, norm>>)
        ELSE RatAdd(RatMul(RatAdd(RatMul(DISJOINT_COEFFICIENT, <<disjoint, 1>>),
                                  RatMul(EXCESS_COEFFICIENT, <<excess, 1>>)),
                           <<1, norm>>),
                    RatMul(PARAM_COEFFICIENT, avg))

GenomeIoSizes == {<<0, 1>>, <<1, 1>>}

InitGenome ==
    /\ \E io \in GenomeIoSizes :
          LET n == Genome_new(io[1], io[2])
          IN  /\ population = <<n, n>>
              /\ innogen = InnoGen_new((io[1] + 1) * io[2])
    /\ args = <<>>
    /\ ret = <<>>
    /\ pc = "build"
    /\ last = "Genome_new"
    /\ offspring = <<>>
    /\ generation = 0
    /\ mutations = 0

GenomeConnection(i) ==
    /\ pc = "build" /\ mutations < MaxBuild
    /\ \E opt \in gen_connection_path(population[i]) :
          LET m == mutate_connection(population[i], innogen, opt)
          IN  /\ args' = <<i, population[i]>>
              /\ ret' = m
              /\ population' = [population EXCEPT ![i] = m.g]
              /\ innogen' = m.ig
              /\ pc' = IF m.panic THEN "panic" ELSE "build"
    /\ mutations' = mutations + 1
    /\ last' = "mutate_connection"
    /\ UNCHANGED <<offspring, generation>>

\* rng.random_range(0..self.connections.len()) is only drawn past the
\* is_empty check
GenomeBisection(i, pick_idx) ==
    /\ pc = "build" /\ mutations < MaxBuild
    /\ \/ population[i].connections = <<>> /\ pick_idx = 0
       \/ pick_idx < Len(population[i].connections)
    /\ LET m == mutate_bisection(population[i], innogen, pick_idx)
       IN  /\ args' = <<i, population[i]>>
           /\ ret' = m
           /\ population' = [population EXCEPT ![i] = m.g]
           /\ innogen' = m.ig
           /\ pc' = IF m.panic THEN "panic" ELSE "build"
    /\ mutations' = mutations + 1
    /\ last' = "mutate_bisection"
    /\ UNCHANGED <<offspring, generation>>

GenomeMutate(i) ==
    /\ pc = "build" /\ mutations < MaxBuild
    /\ \E m \in mutate(population[i], innogen, MaxBuild - mutations) :
          /\ m.used > 0
          /\ args' = <<i, population[i]>>
          /\ ret' = m
          /\ population' = [population EXCEPT ![i] = m.g]
          /\ innogen' = m.ig
          /\ mutations' = mutations + m.used
          /\ pc' = IF m.panic THEN "panic" ELSE "build"
    /\ last' = "mutate"
    /\ UNCHANGED <<offspring, generation>>

GenomeReproduce(i, j, fit) ==
    /\ pc = "build" /\ mutations < MaxBuild
    /\ i # j
    /\ \E c \in reproduce_with(population[i], population[j], fit) :
          /\ args' = <<i, population[i]>>
          /\ ret' = c
          /\ population' = [population EXCEPT ![i] = c]
    /\ mutations' = mutations + 1
    /\ last' = "reproduce_with"
    /\ UNCHANGED <<offspring, pc, innogen, generation>>

NextGenome ==
    \/ \E i \in DOMAIN population : GenomeConnection(i)
    \/ \E i \in DOMAIN population : \E pick_idx \in 0 .. 2 * MaxBuild : GenomeBisection(i, pick_idx)
    \/ \E i \in DOMAIN population : GenomeMutate(i)
    \/ \E i, j \in DOMAIN population : \E fit \in Ordering : GenomeReproduce(i, j, fit)

SpecGenome == InitGenome /\ [][NextGenome]_vars

(************************** claims on SpecGenome **************************)
\* Sensory nodes, then Action nodes, then the bias node, then Internal nodes
NodeLayout(g) ==
    /\ Len(g.nodes) >= g.sensory + g.action + 1
    /\ \A n \in 0 .. Len(g.nodes) - 1 :
          g.nodes[n + 1] = (IF n < g.sensory THEN "Sensory"
                            ELSE IF n < g.sensory + g.action THEN "Action"
                            ELSE IF n = g.sensory + g.action THEN "Bias"
                            ELSE "Internal")

Mutators == {"mutate_connection", "mutate_bisection", "mutate"}

\* C27: in every genome built from Genome::new(sensory, action) by
\* mutate_bisection, mutate_connection and reproduce_with, the first sensory
\* nodes are Sensory, the next action nodes are Action, the node at index
\* sensory + action is the only bias node and every later node is Internal;
\* a mutation never lowers the node count.
C27_NodeLayout ==
    /\ \A i \in DOMAIN population : NodeLayout(population[i])
    /\ last \in Mutators => Len(ret.g.nodes) >= Len(args[2].nodes)

\* a child of reproduce_with that has an Internal node, next to a genome
\* with more nodes than Genome::new gave it
C27_Witness ==
    /\ last = "reproduce_with"
    /\ population[args[1]] = ret
    /\ Len(ret.nodes) > ret.sensory + ret.action + 1
    /\ ret.sensory > 0
    /\ \E i \in DOMAIN population :
          i # args[1] /\ Len(population[i].nodes) > ret.sensory + ret.action + 1

\* C28: mutate_bisection on a genome without connections panics and adds
\* neither a node nor a connection; mutate only bisects a genome that has a
\* connection when the bisection roll is made, so when mutate fails it is
\* because no path was open for mutate_connection, never for want of a
\* connection to bisect.
C28_BisectionGuard ==
    /\ (last = "mutate_bisection" /\ args[2].connections = <<>>) =>
          /\ pc = "panic"
          /\ ret.panic
          /\ ret.g = args[2]
          /\ population[args[1]] = args[2]
    /\ (last = "mutate" /\ ret.panic) => gen_connection_path(ret.g) = {None}

\* mutate on a genome without connections that added a connection and
\* bisected it
C28_Witness ==
    /\ last = "mutate"
    /\ args[2].connections = <<>>
    /\ ~ret.panic
    /\ Len(ret.g.nodes) = Len(args[2].nodes) + 1
    /\ Len(ret.g.connections) = 3

\* mutate_bisection called on a genome without connections
C28_WitnessEmpty ==
    /\ last = "mutate_bisection"
    /\ args[2].connections = <<>>

(********************** claims on Spec: innovation ids *******************)
\* the connections of the genomes of gs
ConnectionsOf(gs) == UNION {{g.connections[k] : k \in DOMAIN g.connections} : g \in gs}

\* the head the registry of the running generation was created with: every
\* path it has seen took one id from the head
GenerationHead == innogen.head - Cardinality(innogen.seen)

\* C29: over population_init and any number of generations of mutation and
\* crossover, the registry head handed from one generation to the next, two
\* connections with the same innovation id, in one genome or in two, have
\* the same (from, to) path, and a connection a crossover child took from a
\* parent has the id and the path of a connection of a parent.
C29_IdsNamePaths ==
    /\ \A c, d \in ConnectionsOf(Range(population) \cup Range(offspring)) :
          c.inno = d.inno => (c.from = d.from /\ c.to = d.to)
    /\ \A c \in ConnectionsOf(Range(offspring)) :
          c.inno < GenerationHead =>
              \E q \in ConnectionsOf(Range(population)) :
                  q.inno = c.inno /\ q.from = c.from /\ q.to = c.to

\* in a later generation, a crossover child with a connection of a parent
\* and a connection of its own mutation, while both parents carry an id
\* the genomes of population_init did not have
C29_Witness ==
    /\ generation >= 1
    /\ last = "reproduce_crossover"
    /\ offspring # <<>>
    /\ \E c, d \in ConnectionsOf({offspring[Len(offspring)]}) :
          c.inno < GenerationHead /\ d.inno >= GenerationHead
    /\ \E c \in ConnectionsOf({population[1]}), d \in ConnectionsOf({population[2]}) :
          c.inno = d.inno /\ c.inno >= PopSize

(************************************************************************)
(* SpecEvolve: the evolution driver.  Every genome of population is     *)
(* evaluated (args = <<the (genome, fitness) pairs so far>>), the hooks *)
(* are dispatched in order (ret = their results so far), and unless a   *)
(* hook broke, the generation is speciated, shrunk and reproduced by    *)
(* the steps of SpecPopulation; the returned genomes are the next       *)
(* population.                                                          *)
(************************************************************************)
ControlFlow == {"Continue", "Break"}

\* what Scenario::eval may return for a genome, counted in quarters: the
\* eval of examples/xor.rs returns fit / 4
EvalFitnesses == {1, 3}

\* the target of the hook of examples/xor.rs, 0.749999
HookTarget == <<749999, 1000000>>

\* the number of genomes of population_init in the run
EvolveSize == 2

\* the hooks of the run: the hook of examples/xor.rs, then a user hook
NumHooks == 2

\* Stats::any_fitter_than(threshold)
any_fitter_than(scored, threshold) ==
    \E k \in DOMAIN scored : scored[k][2] * threshold[2] > 4 * threshold[1]

\* examples/xor.rs: hook
hook(scored) == IF any_fitter_than(scored, HookTarget) THEN "Break" ELSE "Continue"

\* what hook k may return on the scored population
hook_results(k, scored) == IF k = 1 THEN {hook(scored)} ELSE ControlFlow

\* a dispatch that only stops the run on a Break of the last hook
after_hook_last_decides(r, k) ==
    IF k < NumHooks THEN "hooks"
    ELSE IF r = "Break" THEN "terminated" ELSE "genomes"

\* where the driver goes once hook k returned r
after_hook(r, k) ==
    IF r = "Break" THEN "terminated"
    ELSE IF k < NumHooks THEN "hooks" ELSE "genomes"

InitEvolve ==
    /\ \E pi \in population_init(0, 1, EvolveSize) :
          /\ population = pi.v
          /\ innogen = InnoGen_new(pi.head)
    /\ args = << <<>> >>
    /\ ret = <<>>
    /\ pc = "eval"
    /\ last = "population_init"
    /\ offspring = <<>>
    /\ generation = 0
    /\ mutations = 0

\* 1. the next genome is evaluated against the Scenario
EvolveEval(fit) ==
    /\ pc = "eval"
    /\ Len(args[1]) < Len(population)
    /\ args' = <<Append(args[1], <<population[Len(args[1]) + 1], fit>>)>>
    /\ pc' = IF Len(args[1]) + 1 = Len(population) THEN "hooks" ELSE "eval"
    /\ last' = "eval"
    /\ UNCHANGED <<population, offspring, innogen, generation, mutations, ret>>

\* 3. the next hook is dispatched on the Stats of the generation
EvolveHook ==
    /\ pc = "hooks"
    /\ Len(ret) < NumHooks
    /\ \E r \in hook_results(Len(ret) + 1, args[1]) :
          /\ ret' = Append(ret, r)
          /\ pc' = after_hook(r, Len(ret) + 1)
    /\ last' = "hook"
    /\ UNCHANGED <<population, offspring, innogen, generation, mutations, args>>

\* the loop goes round unless the generation cap is reached
EvolveLoop ==
    /\ pc = "done"
    /\ pc' = IF generation < MaxGenerations /\ population # <<>> THEN "eval" ELSE "terminated"
    /\ args' = << <<>> >>
    /\ ret' = <<>>
    /\ offspring' = <<>>
    /\ last' = "loop"
    /\ UNCHANGED <<population, innogen, generation, mutations>>

NextEvolve ==
    \/ \E fit \in EvalFitnesses : EvolveEval(fit)
    \/ EvolveHook
    \/ CallSpeciate
    \/ PopShrink(<<1, 1>>)
    \/ \E top_p \in TopPs : PopAlloc(EvolveSize, top_p)
    \/ PopReproduce
    \/ PopReturn
    \/ EvolveLoop

SpecEvolve == InitEvolve /\ [][NextEvolve]_vars

(************************** claims on SpecEvolve **************************)
\* C30: the hooks are dispatched once every genome of the generation is
\* evaluated and before speciation and reproduction; when a hook returns
\* Break the run ends there, the population is not replaced and the
\* generation counter stays; when every hook returned Continue the
\* generation goes on, and the counter only ever grows by exactly one, with
\* the population replaced by the offspring.
C30_HookDispatch ==
    /\ [](pc = "hooks" =>
            /\ Len(args[1]) = Len(population)
            /\ \A k \in DOMAIN population : args[1][k][1] = population[k])
    /\ [][pc' = "genomes" =>
            /\ pc = "hooks"
            /\ Len(ret') = NumHooks
            /\ \A k \in DOMAIN ret' : ret'[k] = "Continue"]_vars
    /\ [][pc' = "speciated" => pc = "genomes"]_vars
    /\ [][(pc = "hooks" /\ Len(ret') = Len(ret) + 1 /\ ret'[Len(ret')] = "Break") =>
            /\ pc' = "terminated"
            /\ population' = population
            /\ generation' = generation]_vars
    /\ [][(pc = "hooks" /\ Len(ret') = NumHooks
            /\ \A k \in DOMAIN ret' : ret'[k] = "Continue") => pc' = "genomes"]_vars
    /\ [][pc = "terminated" => UNCHANGED <<population, generation>>]_vars
    /\ [][generation' # generation =>
            /\ generation' = generation + 1
            /\ population' = offspring]_vars

\* a run that produced a generation and ended by the Break of the second
\* hook after the Continue of the first
C30_Witness ==
    /\ pc = "terminated"
    /\ generation >= 1
    /\ last = "hook"
    /\ ret = <<"Continue", "Break">>
    /\ population # <<>>

====
